---- MODULE Spec2Model ----
(***************************************************************************)
(* A model of the Feishu document writer: the remote document client       *)
(* (scripts/doc_writer.py), the image uploader and its on-disk cache       *)
(* (scripts/uploader.py) and the orchestrator (scripts/writer.py).         *)
(*                                                                         *)
(* The program is sequential.  One step of the model is one request to the *)
(* remote service together with the code that runs up to the next request; *)
(* every request is appended to the history variable calls with the answer *)
(* the service gave.  An answer is one of                                  *)
(*   "ok"      HTTP 2xx and application code 0,                            *)
(*   "apperr"  HTTP 2xx and a non-zero application code,                   *)
(*   "http"    a non-2xx status: resp.raise_for_status() raises,           *)
(*   "empty"   code 0 with an empty children list (creation calls only).   *)
(* Python's None is None; identifiers are tuples so that they compare.     *)
(* Indices are 0-based as in the code; a sequence s is read at s[i + 1].   *)
(***************************************************************************)
EXTENDS Integers, Sequences, FiniteSets, TLC

VARIABLES
    pc,        \* the control point of the running operation
    op,        \* the operation under way (set by the initial state)
    args,      \* its arguments
    env,       \* the environment: file system, folder listing, remote document, process environment
    calls,     \* the requests issued so far, oldest first, each with its answer
    result,    \* what the top-level operation returned (or that it raised)
    wf,        \* locals of write_file / update_document
    w,         \* frame of _write_content_with_images
    ab,        \* frame of append_blocks
    ft,        \* frame of fill_table
    dl,        \* frame of delete_document_content
    uploader,  \* FeishuWriter.uploader: None or the uploader's md_dir
    cache,     \* the files of TEMP_IMAGE_DIR
    parser     \* a MarkdownParser: its pending lists and the locals of parse

vars == <<pc, op, args, env, calls, result, wf, w, ab, ft, dl, uploader, cache, parser>>

----------------------------------------------------------------------------
(* Bounds of the model. *)

MaxBlocks == 3      \* longest block sequence handed to the write procedure
MaxSourceBlocks == 2  \* longest parsed source given to write_file and update_document
MaxAppend == 101    \* longest list handed to append_blocks on its own
MaxFailures == 2    \* most requests that fail in one run of a client or resolver operation
MaxWriteFailures == 1   \* most requests that fail in one run of the orchestrator
MaxItems == 3       \* longest block listing of a document
MaxResolves == 3    \* most resolutions in one run of the asset resolver
MaxGridCells == 6   \* largest rows * columns of a grid handed to fill_table on its own
HashSpace == 3      \* number of distinct values of the truncated URL hash
MaxTextLen == 4     \* longest arbitrary text handed to the inline parser
MaxInnerLen == 2    \* longest inner text of a construct handed to the inline parser
MaxLines == 3       \* most lines of a text handed to parse
MaxParses == 2      \* most calls of parse on one parser
MaxReparseLines == 2  \* most lines of a text handed to a parser that is used again
MaxCalls == 2       \* most calls of write_file and update_document on one writer
MaxCells == 7       \* most cell containers a table fetch returns to fill_table on its own

(* Program constants. *)

batch_size == 50

None == <<>>
DocId == <<"doc", 1>>
OtherDocId == <<"doc", 2>>

Min(a, b) == IF a < b THEN a ELSE b
Max(a, b) == IF a < b THEN b ELSE a

----------------------------------------------------------------------------
(* Requests and answers. *)

Failures == Cardinality({k \in 1..Len(calls) : calls[k].outcome # "ok"})

FailureCap ==
    IF op \in {"write_file", "update_document", "_write_content_with_images"}
    THEN MaxWriteFailures ELSE MaxFailures

\* The answers the service may give to the next request.
Answers(S) == {o \in S : o = "ok" \/ Failures < FailureCap}

\* The history after one more request: what was asked of which object, the
\* answer, what came back with it, and the write procedure's loop index.
Log(api, target, payload, outcome, reply) ==
    Append(calls, [api |-> api, target |-> target, payload |-> payload,
                   outcome |-> outcome, reply |-> reply, at |-> w.i])

NoResult == [kind |-> "none", value |-> None]
Returned(v) == [kind |-> "returned", value |-> v]
Raised == [kind |-> "raised", value |-> None]

----------------------------------------------------------------------------
(* Blocks, as the parser builds them. *)

IMAGE_PLACEHOLDER == "__IMAGE_PLACEHOLDER__"
TABLE_PLACEHOLDER == "__TABLE_PLACEHOLDER__"

\* An ordinary block; content tells the blocks of one sequence apart.
TextBlock(k) == [block_type |-> "text", content |-> k]

\* _create_image_block: the placeholder of an image reference.
ImageBlock(ref) ==
    [block_type |-> IMAGE_PLACEHOLDER, image_path |-> ref, is_url |-> ref.kind = "url"]

----------------------------------------------------------------------------
(* Idle frames: the locals of a function that is not running. *)

IdleAb == [document_id |-> None, block_id |-> None, blocks |-> <<>>, i |-> 0, ret |-> "none"]
IdleW  == [doc_id |-> None, blocks |-> <<>>, image_map |-> <<>>, table_map |-> <<>>,
           i |-> 0, current_batch |-> <<>>, uploaded_count |-> 0,
           image_block_id |-> None, path |-> None, file_token |-> None]
IdleFt == [table_block_id |-> None, table_data |-> <<>>, cells |-> <<>>,
           row_idx |-> 0, col_idx |-> 0, ret |-> "none"]
IdleDl == [document_id |-> None, blocks |-> <<>>, k |-> 0, ret |-> "none"]
IdleWf == [md_dir |-> None, title |-> "", doc_id |-> None, node_token |-> None,
           wiki_space_id |-> None, wiki_node_token |-> None,
           blocks |-> <<>>, pending_images |-> <<>>, pending_tables |-> <<>>]

----------------------------------------------------------------------------
(* FeishuDocWriter.append_blocks *)

\* if not blocks: return True
AppendBlocksEnter ==
    /\ pc = "ab_enter"
    /\ IF ab.blocks = <<>>
       THEN /\ pc' = ab.ret
            /\ ab' = IdleAb
            /\ result' = IF ab.ret = "done" THEN Returned(TRUE) ELSE result
       ELSE /\ pc' = "ab_chunk"
            /\ UNCHANGED <<ab, result>>
    /\ UNCHANGED <<parser, op, args, env, calls, wf, w, ft, dl, uploader, cache>>

\* A chunk that runs one block too far.
ChunkOneTooMany(blocks, i) == SubSeq(blocks, i + 1, Min(i + batch_size + 1, Len(blocks)))

\* The chunk that starts at offset i: blocks[i:i + batch_size].
Chunk(blocks, i) == SubSeq(blocks, i + 1, Min(i + batch_size, Len(blocks)))

\* One iteration of the chunk loop: post the chunk, then return or go on.
AppendBlocksChunk ==
    /\ pc = "ab_chunk"
    /\ \E o \in Answers({"ok", "apperr", "http"}) :
        /\ calls' = Log("append_children", ab.block_id, Chunk(ab.blocks, ab.i), o, None)
        /\ CASE o = "http" ->
                  /\ pc' = "done"
                  /\ result' = Raised
                  /\ ab' = IdleAb
             [] o = "apperr" ->
                  /\ pc' = ab.ret
                  /\ result' = IF ab.ret = "done" THEN Returned(FALSE) ELSE result
                  /\ ab' = IdleAb
             [] o = "ok" ->
                  IF ab.i + batch_size < Len(ab.blocks)
                  THEN /\ ab' = [ab EXCEPT !.i = ab.i + batch_size]
                       /\ UNCHANGED <<pc, result>>
                  ELSE /\ pc' = ab.ret
                       /\ result' = IF ab.ret = "done" THEN Returned(TRUE) ELSE result
                       /\ ab' = IdleAb
    /\ UNCHANGED <<parser, op, args, env, wf, w, ft, dl, uploader, cache>>

----------------------------------------------------------------------------
(* FeishuDocWriter.fill_table and fill_table_cell *)

\* max(len(row) for row in table_data) if table_data else 0
RECURSIVE MaxRowLen(_)
MaxRowLen(data) ==
    IF data = <<>> THEN 0 ELSE Max(Len(Head(data)), MaxRowLen(Tail(data)))

\* An index that takes the row's own length for the table's width.
CellIndexByRowLen(data, row_idx, col_idx) == row_idx * Len(data[row_idx + 1]) + col_idx

\* cell_index = row_idx * cols + col_idx
CellIndex(data, row_idx, col_idx) == row_idx * MaxRowLen(data) + col_idx

NoCell == <<>>

\* The nested loops over range(rows) and range(cols), entered at (r, c), run
\* up to the next call of fill_table_cell: the cell it is for, or NoCell when
\* the loops end first.  ncells is len(cells).
RECURSIVE Scan(_, _, _, _)
Scan(data, ncells, r, c) ==
    IF r >= Len(data) THEN NoCell
    ELSE IF c >= MaxRowLen(data) THEN Scan(data, ncells, r + 1, 0)
    ELSE IF CellIndex(data, r, c) >= ncells THEN Scan(data, ncells, r + 1, 0)   \* break
    ELSE IF c >= Len(data[r + 1]) THEN Scan(data, ncells, r, c + 1)              \* continue
    ELSE IF data[r + 1][c + 1] # "" THEN <<r, c>>
    ELSE Scan(data, ncells, r, c + 1)

\* A loop that gives up at the first cell whose fill failed.
AfterFillStopOnFailure(o, data, ncells, r, c) ==
    IF o = "ok" THEN Scan(data, ncells, r, c + 1) ELSE NoCell

\* After fill_table_cell returned (true or false): the loop goes on.
AfterFill(o, data, ncells, r, c) == Scan(data, ncells, r, c + 1)

\* The cell containers a fetch of the table's children may return: any number
\* for a table the caller names, the created size less a shortfall otherwise.
FetchedCounts(data) ==
    IF op = "fill_table" THEN 0..MaxCells
    ELSE {Max(0, Len(data) * MaxRowLen(data) - s) : s \in env.shortfalls}

CellContainer(table_block_id, k) == [block_id |-> <<"cell", table_block_id, k>>]

\* fill_table returns v to its caller.
FillTableReturn(v) ==
    /\ pc' = ft.ret
    /\ result' = IF ft.ret = "done" THEN Returned(v) ELSE result
    /\ w' = IF ft.ret = "w_loop" THEN [w EXCEPT !.i = w.i + 1] ELSE w
    /\ ft' = IdleFt

\* The fetch of the table's children and the loops up to the first fill.
FillTableFetch ==
    /\ pc = "ft_fetch"
    /\ \E o \in Answers({"ok", "apperr", "http"}) :
        IF o = "ok"
        THEN \E n \in FetchedCounts(ft.table_data) :
               LET cells == [k \in 1..n |-> CellContainer(ft.table_block_id, k - 1)]
                   next == Scan(ft.table_data, n, 0, 0)
               IN /\ calls' = Log("get_children", ft.table_block_id, None, o, cells)
                  /\ IF next = NoCell
                     THEN FillTableReturn(TRUE)
                     ELSE /\ ft' = [ft EXCEPT !.cells = cells,
                                              !.row_idx = next[1], !.col_idx = next[2]]
                          /\ pc' = "ft_cell"
                          /\ UNCHANGED <<result, w>>
        ELSE /\ calls' = Log("get_children", ft.table_block_id, None, o, <<>>)
             /\ FillTableReturn(FALSE)
    /\ UNCHANGED <<parser, op, args, env, wf, ab, dl, uploader, cache>>

\* One call of fill_table_cell and the loops up to the next one.
FillTableCell ==
    /\ pc = "ft_cell"
    /\ \E o \in Answers({"ok", "apperr", "http"}) :
        LET cell_index == CellIndex(ft.table_data, ft.row_idx, ft.col_idx)
            cell_id == ft.cells[cell_index + 1].block_id
            content == ft.table_data[ft.row_idx + 1][ft.col_idx + 1]
            next == AfterFill(o, ft.table_data, Len(ft.cells), ft.row_idx, ft.col_idx)
        IN /\ calls' = Log("fill_cell", cell_id, content, o, None)
           /\ IF next = NoCell
              THEN FillTableReturn(TRUE)
              ELSE /\ ft' = [ft EXCEPT !.row_idx = next[1], !.col_idx = next[2]]
                   /\ UNCHANGED <<pc, result, w>>
    /\ UNCHANGED <<parser, op, args, env, wf, ab, dl, uploader, cache>>

----------------------------------------------------------------------------
(* FeishuImageUploader: download_from_url and resolve_image_path *)

\* An image reference is what the code reads of the string: whether it starts
\* with http:// or https:// (kind "url") or is a relative or absolute local
\* path, the extension of the URL's path, and the value of a wx_fmt= parameter
\* ("" for none).  id names the rest of the string.
Ref(kind, id, pathext, wx_fmt) ==
    [kind |-> kind, id |-> id, pathext |-> pathext, wx_fmt |-> wx_fmt]

DirA == <<"dir", "A">>
DirB == <<"dir", "B">>
RootDir == <<"dir", "/">>
TEMP_IMAGE_DIR == <<"dir", "tmp/feishu_images">>

AllowedExts == {".jpg", ".jpeg", ".png", ".gif", ".webp", ".bmp", ".svg"}

Lower(e) == IF e = ".PNG" THEN ".png" ELSE e

\* ext_map.get(fmt, '.jpg')
ExtMap(fmt) ==
    CASE fmt \in {"jpeg", "jpg"} -> ".jpg"
      [] fmt = "png" -> ".png"
      [] fmt = "gif" -> ".gif"
      [] fmt = "webp" -> ".webp"
      [] fmt = "bmp" -> ".bmp"
      [] OTHER -> ".jpg"

\* The extension of the cache file of a URL.
Ext(url) ==
    IF url.pathext = "" \/ Lower(url.pathext) \notin AllowedExts
    THEN (IF url.wx_fmt # "" THEN ExtMap(url.wx_fmt) ELSE ".jpg")
    ELSE url.pathext

\* hashlib.md5(url).hexdigest()[:12]: a hash cut to a fixed width, so that
\* two URLs may share it.
UrlHash(url) == url.id % HashSpace

\* local_path = TEMP_IMAGE_DIR / f"img_{url_hash}{ext}"
CachePath(url) == <<TEMP_IMAGE_DIR, UrlHash(url), Ext(url)>>

\* A lookup that never finds the file.
CacheHitNever(path) == FALSE

\* local_path.exists()
CacheHit(path) == path \in cache

\* Whether resolving ref issues a request: a URL whose cache file is missing.
Fetches(ref) == ref.kind = "url" /\ ~CacheHit(CachePath(ref))

\* The answers that matter to a resolution of ref.
ResolveAnswers(ref) == IF Fetches(ref) THEN Answers({"ok", "http"}) ELSE {"ok"}

\* The local path of a local reference under md_dir.
LocalPath(ref, md_dir) == IF ref.kind = "abs" THEN <<RootDir, ref.id>> ELSE <<md_dir, ref.id>>

\* What resolve_image_path returns for ref when a fetch, if one is made, is
\* answered o: a local path or None.
ResolvedPath(ref, md_dir, o) ==
    IF ref.kind = "url"
    THEN (IF CacheHit(CachePath(ref)) \/ o = "ok" THEN CachePath(ref) ELSE None)
    ELSE (IF LocalPath(ref, md_dir) \in env.files THEN LocalPath(ref, md_dir) ELSE None)

\* The requests and the cache directory after that resolution.
ResolveEffects(ref, o) ==
    IF Fetches(ref)
    THEN /\ calls' = Log("fetch_url", ref, None, o, None)
         /\ cache' = IF o = "ok" THEN cache \cup {CachePath(ref)} ELSE cache
    ELSE UNCHANGED <<calls, cache>>

\* resolve_image_path called once more on the same uploader; the returned
\* paths are kept in result, with whether the call issued a request.
ResolveImagePath ==
    /\ pc = "resolve"
    /\ Len(result.value) < MaxResolves
    /\ \E ref \in args.refs :
        \E o \in ResolveAnswers(ref) :
           /\ ResolveEffects(ref, o)
           /\ result' = Returned(Append(result.value,
                             [ref |-> ref, path |-> ResolvedPath(ref, uploader, o),
                              requested |-> Fetches(ref),
                              cached_before |-> CacheHit(CachePath(ref))]))
    /\ UNCHANGED <<parser, pc, op, args, env, wf, w, ab, ft, dl, uploader>>

----------------------------------------------------------------------------
(* FeishuDocWriter.delete_document_content *)

\* A test that lets the root block through.
DeletableRootToo(block_id, document_id) == block_id # None

\* if block_id and block_id != document_id
Deletable(block_id, document_id) == block_id # None /\ block_id # document_id

\* The for loop over blocks, entered at index k, run up to the next delete
\* request: the index of the block it is for, or Len(blocks) at the loop's end.
RECURSIVE NextDelete(_, _, _)
NextDelete(blocks, document_id, k) ==
    IF k >= Len(blocks) THEN Len(blocks)
    ELSE IF Deletable(blocks[k + 1].block_id, document_id) THEN k
    ELSE NextDelete(blocks, document_id, k + 1)

\* update_document after delete_document_content returned v: the value is
\* not read, the write procedure is next (writer.py, lines 242-246).
AfterDelete(v) == "w_enter"

\* delete_document_content returns v to its caller.
DeleteReturn(v) ==
    /\ pc' = IF dl.ret = "done" THEN "done" ELSE AfterDelete(v)
    /\ result' = IF dl.ret = "done" THEN Returned(v) ELSE result
    /\ dl' = IdleDl

\* The listing of the document's blocks and the loop up to the first delete.
DeleteList ==
    /\ pc = "dl_list"
    /\ \E o \in Answers({"ok", "apperr", "http"}) :
        CASE o = "http" ->
               /\ calls' = Log("list_blocks", dl.document_id, None, o, <<>>)
               /\ pc' = "done"
               /\ result' = Raised
               /\ dl' = IdleDl
          [] o = "apperr" ->
               /\ calls' = Log("list_blocks", dl.document_id, None, o, <<>>)
               /\ DeleteReturn(FALSE)
          [] o = "ok" ->
               LET blocks == env.doc_items
                   k == NextDelete(blocks, dl.document_id, 0)
               IN /\ calls' = Log("list_blocks", dl.document_id, None, o, blocks)
                  /\ IF k >= Len(blocks)
                     THEN DeleteReturn(TRUE)
                     ELSE /\ dl' = [dl EXCEPT !.blocks = blocks, !.k = k]
                          /\ pc' = "dl_delete"
                          /\ UNCHANGED result
    /\ UNCHANGED <<parser, op, args, env, wf, w, ab, ft, uploader, cache>>

\* One delete request, its answer unread, and the loop up to the next one.
DeleteBlock ==
    /\ pc = "dl_delete"
    /\ \E o \in Answers({"ok", "apperr", "http"}) :
        LET k == NextDelete(dl.blocks, dl.document_id, dl.k + 1)
        IN /\ calls' = Log("delete_block", dl.blocks[dl.k + 1].block_id, None, o, None)
           /\ IF k >= Len(dl.blocks)
              THEN DeleteReturn(TRUE)
              ELSE /\ dl' = [dl EXCEPT !.k = k]
                   /\ UNCHANGED <<pc, result>>
    /\ UNCHANGED <<parser, op, args, env, wf, w, ab, ft, uploader, cache>>

----------------------------------------------------------------------------
(* The parser's output, as the writer reads it. *)

\* _create_table_block: the placeholder of a grid.
TableBlock(data) ==
    [block_type |-> TABLE_PLACEHOLDER, table_data |-> data,
     rows |-> Len(data), cols |-> MaxRowLen(data)]

\* A parsed source is the sequence of its constructs, one per block: a text
\* construct, an image reference or a table region with its grid.
Construct(kind, ref, data) == [kind |-> kind, ref |-> ref, data |-> data]

NoRef == Ref("none", 0, "", "")

\* The blocks parse returns, the block at index k from construct k.
ParsedBlocks(src) ==
    [k \in 1..Len(src) |->
        CASE src[k].kind = "image" -> ImageBlock(src[k].ref)
          [] src[k].kind = "table" -> TableBlock(src[k].data)
          [] OTHER -> TextBlock(k - 1)]

\* pending_images: (block_index, image_path, is_url) for every image, in order.
PendingImages(src) ==
    LET RECURSIVE Go(_)
        Go(k) == IF k > Len(src) THEN <<>>
                 ELSE (IF src[k].kind = "image"
                       THEN <<(<<k - 1, src[k].ref, src[k].ref.kind = "url">>)>>
                       ELSE <<>>) \o Go(k + 1)
    IN Go(1)

\* pending_tables: (block_index, table_data) for every table, in order.
PendingTables(src) ==
    LET RECURSIVE Go(_)
        Go(k) == IF k > Len(src) THEN <<>>
                 ELSE (IF src[k].kind = "table" THEN <<(<<k - 1, src[k].data>>)>> ELSE <<>>)
                      \o Go(k + 1)
    IN Go(1)

----------------------------------------------------------------------------
(* FeishuWriter._write_content_with_images *)

\* {idx: ... for idx, ... in pending}: a dict from the entries' first
\* components to what follows them; the last entry of an index wins.
MapOf(pending) ==
    [idx \in {pending[k][1] : k \in 1..Len(pending)} |->
        LET k == CHOOSE k \in 1..Len(pending) :
                     /\ pending[k][1] = idx
                     /\ \A j \in (k + 1)..Len(pending) : pending[j][1] # idx
        IN Tail(pending[k])]

\* An uploader that keeps the directory it was first given.
UploaderDirKept(current, md_dir) == IF current = None THEN md_dir ELSE current

\* self.uploader.md_dir after lines 154-159: a new uploader gets md_dir, an
\* uploader left by an earlier call has its md_dir set to it.
UploaderDir(current, md_dir) == md_dir

\* Lines 151-168: the locals before the loop.
WriteEnter ==
    /\ pc = "w_enter"
    /\ uploader' = UploaderDir(uploader, wf.md_dir)
    /\ w' = [IdleW EXCEPT !.doc_id = wf.doc_id, !.blocks = wf.blocks,
                          !.image_map = MapOf(wf.pending_images),
                          !.table_map = MapOf(wf.pending_tables)]
    /\ pc' = "w_loop"
    /\ UNCHANGED <<parser, op, args, env, calls, result, wf, ab, ft, dl, cache>>

\* An append after which the batch is kept.
CallAppendKeepBatch(ret) ==
    /\ ab' = [IdleAb EXCEPT !.document_id = w.doc_id, !.block_id = w.doc_id,
                            !.blocks = w.current_batch, !.ret = ret]
    /\ UNCHANGED w
    /\ pc' = "ab_enter"

\* self.doc_writer.append_blocks(doc_id, doc_id, current_batch), after which
\* the batch is empty and control is at ret.
CallAppend(ret) ==
    /\ ab' = [IdleAb EXCEPT !.document_id = w.doc_id, !.block_id = w.doc_id,
                            !.blocks = w.current_batch, !.ret = ret]
    /\ w' = [w EXCEPT !.current_batch = <<>>]
    /\ pc' = "ab_enter"

\* A writer that appends the ordinary blocks only once, at the end.
FlushAtEndOnly(ret) ==
    IF w.current_batch # <<>> /\ ret = "w_return"
    THEN CallAppend(ret)
    ELSE pc' = ret /\ UNCHANGED <<ab, w>>

\* if current_batch: append it; then go on at ret.
Flush(ret) ==
    IF w.current_batch # <<>>
    THEN CallAppend(ret)
    ELSE pc' = ret /\ UNCHANGED <<ab, w>>

\* The head of one loop iteration, and the code after the loop.
WriteLoop ==
    /\ pc = "w_loop"
    /\ IF w.i >= Len(w.blocks) THEN Flush("w_return")
       ELSE IF w.i \in DOMAIN w.image_map THEN Flush("w_image")
       ELSE IF w.i \in DOMAIN w.table_map THEN Flush("w_table")
       ELSE /\ w' = [w EXCEPT !.current_batch = Append(@, w.blocks[w.i + 1]),
                              !.i = @ + 1]
            /\ UNCHANGED <<pc, ab>>
    /\ UNCHANGED <<parser, op, args, env, calls, result, wf, ft, dl, uploader, cache>>

\* The identifier the service gives to what the next request creates.
NewId(kind) == <<kind, Len(calls) + 1>>

\* The loop's continue: on to the next block.
NextBlock ==
    [w EXCEPT !.i = @ + 1, !.image_block_id = None, !.path = None, !.file_token = None]

\* create_image_block: the placeholder, or None on any failure.
WriteImage ==
    /\ pc = "w_image"
    /\ \E o \in Answers({"ok", "empty", "apperr", "http"}) :
        LET image_block_id == IF o = "ok" THEN NewId("blk") ELSE None
        IN /\ calls' = Log("create_image", w.doc_id, None, o, image_block_id)
           /\ IF image_block_id = None
              THEN w' = NextBlock /\ pc' = "w_loop"
              ELSE w' = [w EXCEPT !.image_block_id = image_block_id] /\ pc' = "up_resolve"
    /\ UNCHANGED <<parser, op, args, env, result, wf, ab, ft, dl, uploader, cache>>

\* uploader.upload, first half: resolve_image_path(image_source).
UploadResolve ==
    /\ pc = "up_resolve"
    /\ LET ref == w.image_map[w.i][1]
       IN \E o \in ResolveAnswers(ref) :
            LET path == ResolvedPath(ref, uploader, o)
            IN /\ ResolveEffects(ref, o)
               /\ IF path = None
                  THEN w' = NextBlock /\ pc' = "w_loop"
                  ELSE w' = [w EXCEPT !.path = path] /\ pc' = "up_post"
    /\ UNCHANGED <<parser, op, args, env, result, wf, ab, ft, dl, uploader>>

\* uploader.upload, second half: the post of the file against parent_node.
UploadPost ==
    /\ pc = "up_post"
    /\ \E o \in Answers({"ok", "empty", "apperr", "http"}) :
        LET file_token == IF o = "ok" THEN NewId("tok") ELSE None
        IN /\ calls' = Log("upload_media", w.image_block_id, w.path, o, file_token)
           /\ IF file_token = None
              THEN w' = NextBlock /\ pc' = "w_loop"
              ELSE w' = [w EXCEPT !.file_token = file_token] /\ pc' = "w_bind"
    /\ UNCHANGED <<parser, op, args, env, result, wf, ab, ft, dl, uploader, cache>>

\* A count of the uploads rather than of the bindings.
CountedAlways(o, n) == n + 1

\* if replace_image_token(...): uploaded_count += 1
Counted(o, n) == IF o = "ok" THEN n + 1 ELSE n

\* replace_image_token and the count of uploaded images.
ReplaceImageToken ==
    /\ pc = "w_bind"
    /\ \E o \in Answers({"ok", "apperr", "http"}) :
        /\ calls' = Log("replace_image", w.image_block_id, w.file_token, o, None)
        /\ w' = [NextBlock EXCEPT !.uploaded_count = Counted(o, @)]
        /\ pc' = "w_loop"
    /\ UNCHANGED <<parser, op, args, env, result, wf, ab, ft, dl, uploader, cache>>

\* A test of the rows alone.
HasCellsByRows(rows, cols) == rows > 0

\* if rows > 0 and cols > 0
HasCells(rows, cols) == rows > 0 /\ cols > 0

\* The table branch: create_table, then fill_table on the new table.
WriteTable ==
    /\ pc = "w_table"
    /\ LET table_data == w.table_map[w.i][1]
           rows == Len(table_data)
           cols == MaxRowLen(table_data)
       IN IF HasCells(rows, cols)
          THEN \E o \in Answers({"ok", "empty", "apperr", "http"}) :
                 LET table_block_id == IF o = "ok" THEN NewId("blk") ELSE None
                 IN /\ calls' = Log("create_table", w.doc_id, <<rows, cols>>, o, table_block_id)
                    /\ IF table_block_id # None
                       THEN /\ ft' = [IdleFt EXCEPT !.table_block_id = table_block_id,
                                                    !.table_data = table_data,
                                                    !.ret = "w_loop"]
                            /\ pc' = "ft_fetch"
                            /\ UNCHANGED w
                       ELSE /\ w' = NextBlock
                            /\ pc' = "w_loop"
                            /\ UNCHANGED ft
          ELSE /\ w' = NextBlock
               /\ pc' = "w_loop"
               /\ UNCHANGED <<calls, ft>>
    /\ UNCHANGED <<parser, op, args, env, result, wf, ab, dl, uploader, cache>>

\* The result dictionary of write_file and update_document.
ResultDict(success, document_id, node_token, message, uploaded_images, existing_doc) ==
    [success |-> success, document_id |-> document_id, node_token |-> node_token,
     message |-> message, uploaded_images |-> uploaded_images,
     existing_doc |-> existing_doc]

\* return uploaded_count, and what the caller returns after it.
WriteReturn ==
    /\ pc = "w_return"
    /\ pc' = "done"
    /\ result' =
         CASE op = "write_file" ->
                Returned(ResultDict(TRUE, wf.doc_id, wf.node_token, "created",
                                    w.uploaded_count, None))
           [] op = "update_document" ->
                Returned(ResultDict(TRUE, args.document_id, None, "updated",
                                    w.uploaded_count, None))
           [] OTHER -> Returned(w.uploaded_count)
    /\ w' = IdleW
    /\ UNCHANGED <<parser, op, args, env, calls, wf, ab, ft, dl, uploader, cache>>

----------------------------------------------------------------------------
(* FeishuWriter.write_file and update_document *)

\* A failure result: success false, no document id, a message.
Failure(message) == Returned(ResultDict(FALSE, None, None, message, None, None))

\* A lookup that never matches.
FirstNamedNever(docs, title) == 0

\* for doc in docs: if doc.get("name") == title: existing_doc = doc; break
\* The index of the first item named title, 0 for none.
FirstNamed(docs, title) ==
    IF \E k \in 1..Len(docs) : docs[k].name = title
    THEN CHOOSE k \in 1..Len(docs) :
             /\ docs[k].name = title
             /\ \A j \in 1..(k - 1) : docs[j].name # title
    ELSE 0

\* Lines 88-98 and 117-118: where the document is created, with locals l.
AfterDuplicateCheck(l) ==
    IF args.target = "wiki"
    THEN LET wiki_space_id == env.FEISHU_DEFAULT_WIKI_SPACE_ID
             wiki_node_token == IF args.wiki_token # None THEN args.wiki_token
                                ELSE env.FEISHU_DEFAULT_WIKI_NODE_TOKEN
             l2 == [l EXCEPT !.wiki_space_id = wiki_space_id,
                             !.wiki_node_token = wiki_node_token]
         IN /\ wf' = l2
            /\ IF wiki_node_token # None /\ wiki_space_id = None
               THEN pc' = "wf_get_space" /\ UNCHANGED result
               ELSE IF wiki_space_id = None
               THEN pc' = "done" /\ result' = Failure(<<"no wiki space_id">>)
               ELSE pc' = "wf_create_wiki" /\ UNCHANGED result
    ELSE /\ wf' = l
         /\ pc' = "wf_create_doc"
         /\ UNCHANGED result

\* Lines 56-73: the file is read and parsed.
WriteFileStart ==
    /\ pc = "wf_start"
    /\ IF ~env.md_exists
       THEN /\ pc' = "done"
            /\ result' = Failure(<<"file does not exist">>)
            /\ UNCHANGED wf
       ELSE LET l == [IdleWf EXCEPT !.md_dir = args.md_path.dir,
                                    !.title = args.md_path.stem,
                                    !.blocks = ParsedBlocks(env.source),
                                    !.pending_images = PendingImages(env.source),
                                    !.pending_tables = PendingTables(env.source)]
            IN IF args.check_duplicate /\ args.folder_token # None
               THEN pc' = "wf_list" /\ wf' = l /\ UNCHANGED result
               ELSE AfterDuplicateCheck(l)
    /\ UNCHANGED <<parser, op, args, env, calls, w, ab, ft, dl, uploader, cache>>

\* list_documents_in_folder and the duplicate check, lines 74-86.
ListDocumentsInFolder ==
    /\ pc = "wf_list"
    /\ \E o \in Answers({"ok", "apperr", "http"}) :
        LET docs == IF o = "ok" THEN env.folder_files ELSE <<>>
            existing == FirstNamed(docs, wf.title)
        IN /\ calls' = Log("list_files", args.folder_token, None, o, docs)
           /\ IF o = "http"
              THEN pc' = "done" /\ result' = Raised /\ UNCHANGED wf
              ELSE IF existing # 0
              THEN /\ pc' = "done"
                   /\ result' = Returned(ResultDict(FALSE, None, None,
                                    <<"duplicate", docs[existing].token, wf.title>>,
                                    None, docs[existing]))
                   /\ UNCHANGED wf
              ELSE AfterDuplicateCheck(wf)
    /\ UNCHANGED <<parser, op, args, env, w, ab, ft, dl, uploader, cache>>

SpaceId == <<"space", 1>>

\* get_wiki_space_id: None for a status other than 200, a non-zero code or a
\* node without space_id.
GetWikiSpaceId ==
    /\ pc = "wf_get_space"
    /\ \E o \in Answers({"ok", "empty", "apperr", "http"}) :
        LET wiki_space_id == IF o = "ok" THEN SpaceId ELSE None
        IN /\ calls' = Log("get_node", wf.wiki_node_token, None, o, wiki_space_id)
           /\ IF wiki_space_id = None
              THEN /\ pc' = "done"
                   /\ result' = Failure(<<"no wiki space_id">>)
                   /\ UNCHANGED wf
              ELSE /\ pc' = "wf_create_wiki"
                   /\ wf' = [wf EXCEPT !.wiki_space_id = wiki_space_id]
                   /\ UNCHANGED result
    /\ UNCHANGED <<parser, op, args, env, w, ab, ft, dl, uploader, cache>>

\* A creation that passes for done unless the status is an HTTP error.
CreatedUnlessHttp(o) == o # "http"

\* create_document and create_wiki_document return identifiers only when
\* raise_for_status passes and the code is 0; they raise otherwise.
Created(o) == o = "ok"

\* create_wiki_document inside the try of lines 100-105.
CreateWikiDocument ==
    /\ pc = "wf_create_wiki"
    /\ \E o \in Answers({"ok", "apperr", "http"}) :
        /\ calls' = Log("create_wiki_node", wf.wiki_space_id,
                        [title |-> wf.title, parent_node_token |-> wf.wiki_node_token],
                        o, IF o = "ok" THEN DocId ELSE None)
        /\ IF Created(o)
           THEN /\ wf' = [wf EXCEPT !.doc_id = DocId, !.node_token = NewId("node")]
                /\ pc' = "w_enter"
                /\ UNCHANGED result
           ELSE /\ pc' = "done"
                /\ result' = Failure(<<"creating the wiki document failed">>)
                /\ UNCHANGED wf
    /\ UNCHANGED <<parser, op, args, env, w, ab, ft, dl, uploader, cache>>

\* create_document inside the try of lines 119-125.
CreateDocument ==
    /\ pc = "wf_create_doc"
    /\ \E o \in Answers({"ok", "apperr", "http"}) :
        /\ calls' = Log("create_document", None,
                        [title |-> wf.title,
                         folder_token |-> IF args.target = "folder"
                                          THEN args.folder_token ELSE None],
                        o, IF o = "ok" THEN DocId ELSE None)
        /\ IF Created(o)
           THEN /\ wf' = [wf EXCEPT !.doc_id = DocId]
                /\ pc' = "w_enter"
                /\ UNCHANGED result
           ELSE /\ pc' = "done"
                /\ result' = Failure(<<"creating the document failed">>)
                /\ UNCHANGED wf
    /\ UNCHANGED <<parser, op, args, env, w, ab, ft, dl, uploader, cache>>

\* update_document, lines 230-243: the file is read and parsed, then the
\* existing content is deleted.
UpdateStart ==
    /\ pc = "ud_start"
    /\ IF ~env.md_exists
       THEN /\ pc' = "done"
            /\ result' = Failure(<<"file does not exist">>)
            /\ UNCHANGED <<wf, dl>>
       ELSE /\ wf' = [IdleWf EXCEPT !.md_dir = args.md_path.dir,
                                    !.title = args.md_path.stem,
                                    !.doc_id = args.document_id,
                                    !.blocks = ParsedBlocks(env.source),
                                    !.pending_images = PendingImages(env.source),
                                    !.pending_tables = PendingTables(env.source)]
            /\ dl' = [IdleDl EXCEPT !.document_id = args.document_id, !.ret = "ud_write"]
            /\ pc' = "dl_list"
            /\ UNCHANGED result
    /\ UNCHANGED <<parser, op, args, env, calls, w, ab, ft, uploader, cache>>

----------------------------------------------------------------------------
(* Text.  A string is a sequence of one-character strings. *)

NL == "\n"

\* The backquote character.
BT == "backquote"

\* s[from..to], 1-based and inclusive, empty when from > to.
Sub(s, from, to) == SubSeq(s, from, to)

\* s has the string p at index pos (1-based).
HasAt(s, pos, p) ==
    /\ pos >= 1
    /\ pos + Len(p) - 1 <= Len(s)
    /\ \A j \in 1..Len(p) : s[pos + j - 1] = p[j]

\* str.startswith / str.endswith
StartsWith(s, p) == HasAt(s, 1, p)
EndsWith(s, p) == HasAt(s, Len(s) - Len(p) + 1, p)

\* ch in s
Contains(s, ch) == \E j \in 1..Len(s) : s[j] = ch

RECURSIVE LStrip(_)
LStrip(s) == IF s # <<>> /\ Head(s) \in {" ", NL} THEN LStrip(Tail(s)) ELSE s

RECURSIVE RStrip(_)
RStrip(s) == IF s # <<>> /\ s[Len(s)] \in {" ", NL} THEN RStrip(Sub(s, 1, Len(s) - 1)) ELSE s

\* str.strip()
Strip(s) == RStrip(LStrip(s))

RECURSIVE Split(_, _)
\* str.split(ch): the pieces between the occurrences of ch, at least one piece.
Split(s, ch) ==
    IF ~Contains(s, ch) THEN <<s>>
    ELSE LET j == CHOOSE j \in 1..Len(s) : s[j] = ch /\ \A h \in 1..(j - 1) : s[h] # ch
         IN <<Sub(s, 1, j - 1)>> \o Split(Sub(s, j + 1, Len(s)), ch)

RECURSIVE Join(_, _)
\* ch.join(pieces)
Join(pieces, ch) ==
    IF pieces = <<>> THEN <<>>
    ELSE IF Len(pieces) = 1 THEN pieces[1]
    ELSE pieces[1] \o <<ch>> \o Join(Tail(pieces), ch)

\* The least member of a non-empty set of integers.
Least(S) == CHOOSE x \in S : \A y \in S : x <= y

----------------------------------------------------------------------------
(* MarkdownParser._parse_inline_formats *)

\* A run of text: style is "plain", "bold", "inline_code", "italic" or "link".
Run(content, style, url) == [content |-> content, style |-> style, url |-> url]
PlainRun(content) == Run(content, "plain", None)

\* The characters of s from..to hold no newline ('.' does not match one).
NoNewline(s, from, to) == \A j \in from..to : s[j] # NL

\* The lengths k >= 1 of an inner text starting at index start that is
\* followed by the string close.
InnerLengths(text, start, close) ==
    {k \in 1..(Len(text) - start + 1) :
        HasAt(text, start + k, close) /\ NoNewline(text, start, start + k - 1)}

NoMatch == [end |-> 0, style |-> "plain", content |-> <<>>, url |-> None]

\* open(.+?)close tried at index pos: the lazy group takes the shortest inner
\* text that is followed by close.  end is the index after the match.
Delimited(text, pos, open, close, style) ==
    LET start == pos + Len(open)
        ks == InnerLengths(text, start, close)
    IN IF ~HasAt(text, pos, open) \/ ks = {} THEN NoMatch
       ELSE [end |-> start + Least(ks) + Len(close), style |-> style,
             content |-> Sub(text, start, start + Least(ks) - 1), url |-> None]

\* \[(.+?)\]\((.+?)\) tried at index pos: the shortest text followed by "]("
\* after which a target and a ")" can still be matched, then the shortest
\* target followed by ")".
Linked(text, pos) ==
    LET ks == {k \in InnerLengths(text, pos + 1, <<"]", "(">>) :
                  InnerLengths(text, pos + 1 + k + 2, <<")">>) # {}}
    IN IF ~HasAt(text, pos, <<"[">>) \/ ks = {} THEN NoMatch
       ELSE LET k == Least(ks)
                tstart == pos + 1 + k + 2
                t == Least(InnerLengths(text, tstart, <<")">>))
            IN [end |-> tstart + t + 1, style |-> "link",
                content |-> Sub(text, pos + 1, pos + k),
                url |-> Sub(text, tstart, tstart + t - 1)]

\* The first of the matches ms (in the order tried) that matched.
FirstMatch(ms) ==
    IF \E k \in 1..Len(ms) : ms[k].end > 0
    THEN ms[Least({k \in 1..Len(ms) : ms[k].end > 0})]
    ELSE NoMatch

\* A pattern that tries the single-character delimiters before the doubled ones.
MatchAtItalicFirst(text, pos) ==
    FirstMatch(<<Delimited(text, pos, <<"*">>, <<"*">>, "italic"),
                 Delimited(text, pos, <<"_">>, <<"_">>, "italic"),
                 Delimited(text, pos, <<"*", "*">>, <<"*", "*">>, "bold"),
                 Delimited(text, pos, <<"_", "_">>, <<"_", "_">>, "bold"),
                 Delimited(text, pos, <<BT>>, <<BT>>, "inline_code"),
                 Linked(text, pos)>>)

\* The alternatives of the pattern (line 207) tried in order at index pos.
MatchAt(text, pos) ==
    FirstMatch(<<Delimited(text, pos, <<"*", "*">>, <<"*", "*">>, "bold"),
                 Delimited(text, pos, <<"_", "_">>, <<"_", "_">>, "bold"),
                 Delimited(text, pos, <<BT>>, <<BT>>, "inline_code"),
                 Delimited(text, pos, <<"*">>, <<"*">>, "italic"),
                 Delimited(text, pos, <<"_">>, <<"_">>, "italic"),
                 Linked(text, pos)>>)

RECURSIVE RunsFrom(_, _)
\* The loop over re.finditer from index last (1-based): the leftmost match at
\* or after last, the plain text before it, and on from the end of the match; the
\* remaining text after the last match.
RunsFrom(text, last) ==
    LET starts == {q \in last..Len(text) : MatchAt(text, q).end > 0}
    IN IF starts = {}
       THEN IF last <= Len(text) THEN <<PlainRun(Sub(text, last, Len(text)))>> ELSE <<>>
       ELSE LET q == Least(starts)
                m == MatchAt(text, q)
            IN (IF q > last THEN <<PlainRun(Sub(text, last, q - 1))>> ELSE <<>>)
               \o <<Run(m.content, m.style, m.url)>>
               \o RunsFrom(text, m.end)

\* _parse_inline_formats(text), and _create_text_elements(text) which returns
\* the same list.
InlineFormats(text) ==
    LET elements == RunsFrom(text, 1)
    IN IF elements # <<>> THEN elements ELSE <<PlainRun(text)>>

\* _parse_inline_formats called on its own.
ParseInlineFormats ==
    /\ pc = "inline"
    /\ result' = Returned(InlineFormats(args.text))
    /\ pc' = "done"
    /\ UNCHANGED <<parser, op, args, env, calls, wf, w, ab, ft, dl, uploader, cache>>

----------------------------------------------------------------------------
(* MarkdownParser *)

IdleParser == [pending_images |-> <<>>, pending_tables |-> <<>>,
               lines |-> <<>>, i |-> 0, blocks |-> <<>>, parses |-> 0]

\* The constant of min(level, 9) at line 46.
MaxHeadingLevel == 9

Digits == {"0", "1", "2", "3", "4", "5", "6", "7", "8", "9"}

\* len(re.match(r"^#+", line).group()): the number of leading "#".
RECURSIVE LeadingHashes(_)
LeadingHashes(line) ==
    IF line # <<>> /\ Head(line) = "#" THEN 1 + LeadingHashes(Tail(line)) ELSE 0

\* A heading level that is not capped.
HeadingLevelUncapped(line) == LeadingHashes(line)

\* min(level, 9)
HeadingLevel(line) == Min(LeadingHashes(line), MaxHeadingLevel)

\* An ordinary block.  key is the name of the field that holds the elements;
\* language is set for a code block only.
Block(block_type, key, elements, language) ==
    [block_type |-> block_type, key |-> key, elements |-> elements, language |-> language]

\* _create_heading_block(text, level)
HeadingBlock(text, level) == Block(2 + level, <<"heading", level>>, InlineFormats(text), None)

\* _create_text_block, _create_quote_block, _create_bullet_block,
\* _create_ordered_block, _create_divider_block
ParagraphBlock(text) == Block(2, <<"text">>, InlineFormats(text), None)
QuoteBlock(text) == Block(15, <<"quote">>, InlineFormats(text), None)
BulletBlock(text) == Block(12, <<"bullet">>, InlineFormats(text), None)
OrderedBlock(text) == Block(13, <<"ordered">>, InlineFormats(text), None)
DividerBlock == Block(22, <<"divider">>, <<>>, None)

\* language_map.get(language.lower(), 47), for the names go and c of the
\* table; every other name of the model's alphabet is not in the table.
LanguageCode(language) ==
    IF language = <<"g", "o">> THEN 18
    ELSE IF language = <<"c">> THEN 7
    ELSE 47

\* _create_code_block(code, language)
CodeBlock(code, language) == Block(14, <<"code">>, <<PlainRun(code)>>, LanguageCode(language))

Fence == <<BT, BT, BT>>

\* line[3:].strip() or "plain_text"
FenceLanguage(line) ==
    LET l == Strip(Sub(line, 4, Len(line)))
    IN IF l # <<>> THEN l ELSE <<"p", "l", "a", "i", "n", "_", "t", "e", "x", "t">>

\* A fenced region that ends at the first line that is exactly the fence.
RECURSIVE CodeEndAtBareFence(_, _)
CodeEndAtBareFence(lines, i) ==
    IF i < Len(lines) /\ lines[i + 1] # Fence THEN CodeEndAtBareFence(lines, i + 1) ELSE i

\* The index after the lines of a fenced region that starts at index i (the
\* line after the opening fence): the loop of lines 55-57.
RECURSIVE CodeEnd(_, _)
CodeEnd(lines, i) ==
    IF i < Len(lines) /\ ~StartsWith(lines[i + 1], Fence) THEN CodeEnd(lines, i + 1) ELSE i

\* _parse_table_row(line)
ParseTableRow(line) ==
    LET s == Strip(line)
        a == IF StartsWith(s, <<"|">>) THEN Tail(s) ELSE s
        b == IF EndsWith(a, <<"|">>) THEN Sub(a, 1, Len(a) - 1) ELSE a
        pieces == Split(b, "|")
    IN [k \in 1..Len(pieces) |-> Strip(pieces[k])]

\* re.match(r"^[\-:]+$", cell.strip())
IsAlignmentCell(cell) ==
    LET c == Strip(cell)
    IN c # <<>> /\ \A j \in 1..Len(c) : c[j] \in {"-", ":"}

\* A table scan that keeps the alignment rows.
IsAlignmentRowNever(cells) == FALSE

\* all(... for cell in cells)
IsAlignmentRow(cells) == \A k \in 1..Len(cells) : IsAlignmentCell(cells[k])

\* _parse_table(lines, start_idx) from index i with the rows found so far:
\* the rows and the index where the scan stopped.
RECURSIVE TableScan(_, _, _)
TableScan(lines, i, table_rows) ==
    IF i >= Len(lines) \/ ~StartsWith(Strip(lines[i + 1]), <<"|">>)
    THEN [table_data |-> table_rows, stop |-> i]
    ELSE LET cells == ParseTableRow(lines[i + 1])
         IN IF cells = <<>> THEN [table_data |-> table_rows, stop |-> i]
            ELSE IF IsAlignmentRow(cells) THEN TableScan(lines, i + 1, table_rows)
            ELSE TableScan(lines, i + 1, Append(table_rows, cells))

\* _parse_table: (table_data, consumed)
ParseTable(lines, start_idx) ==
    LET t == TableScan(lines, start_idx, <<>>)
    IN [table_data |-> t.table_data, consumed |-> t.stop - start_idx]

\* line.strip().startswith("|") and "|" in line[1:]
LooksLikeTable(line) ==
    StartsWith(Strip(line), <<"|">>) /\ Contains(Sub(line, 2, Len(line)), "|")

\* The lengths k >= 0 of a text at index start that a lazy (.*?) can take
\* before the string close.
LazyLengths(text, start, close) ==
    {k \in 0..(Len(text) - start + 1) :
        HasAt(text, start + k, close) /\ NoNewline(text, start, start + k - 1)}

\* re.match(r"!\[(.*?)\]\((.*?)\)", line): matched, group(1), group(2)
ImageMatch(line) ==
    LET ks == {k \in LazyLengths(line, 3, <<"]", "(">>) :
                  LazyLengths(line, 3 + k + 2, <<")">>) # {}}
    IN IF ~StartsWith(line, <<"!", "[">>) \/ ks = {}
       THEN [matched |-> FALSE, alt_text |-> <<>>, img_path |-> <<>>]
       ELSE LET k == Least(ks)
                t == Least(LazyLengths(line, 3 + k + 2, <<")">>))
            IN [matched |-> TRUE, alt_text |-> Sub(line, 3, 2 + k),
                img_path |-> Sub(line, 3 + k + 2, 3 + k + 1 + t)]

\* img_path.startswith(("http://", "https://"))
IsUrl(img_path) ==
    \/ StartsWith(img_path, <<"h", "t", "t", "p", ":", "/", "/">>)
    \/ StartsWith(img_path, <<"h", "t", "t", "p", "s", ":", "/", "/">>)

\* The dict _create_image_block returns.
ImagePlaceholder(img_path) ==
    [block_type |-> IMAGE_PLACEHOLDER, image_path |-> img_path, is_url |-> IsUrl(img_path)]

IsQuote(line) == StartsWith(line, <<">">>)

\* re.match(r"^[\-\*\+]\s", line)
IsBullet(line) == Len(line) >= 2 /\ line[1] \in {"-", "*", "+"} /\ line[2] = " "

\* The length of the prefix that r"^\d+\.\s" matches, 0 when it does not.
OrderedPrefix(line) ==
    LET ds == {n \in 1..Len(line) : \A j \in 1..n : line[j] \in Digits}
    IN IF ds = {} THEN 0
       ELSE LET n == CHOOSE n \in ds : \A m \in ds : m <= n
            IN IF HasAt(line, n + 1, <<".", " ">>) THEN n + 2 ELSE 0

IsOrdered(line) == OrderedPrefix(line) > 0

\* re.match(r"^[\-\*\_]{3,}$", line.strip())
IsDivider(line) ==
    LET s == Strip(line)
    IN Len(s) >= 3 /\ \A j \in 1..Len(s) : s[j] \in {"-", "*", "_"}

\* The conditions of the three inner loops.
IsLineOf(kind, line) ==
    CASE kind = "quote" -> IsQuote(line)
      [] kind = "bullet" -> IsBullet(line)
      [] kind = "ordered" -> IsOrdered(line)

\* A run that takes no line.
RunEndStay(lines, i, kind) == i

\* The index after the run of lines of a kind from index i: the loops
\* of lines 85-87, 94-96 and 104-106.
RECURSIVE RunEnd(_, _, _)
RunEnd(lines, i, kind) ==
    IF i < Len(lines) /\ IsLineOf(kind, lines[i + 1]) THEN RunEnd(lines, i + 1, kind) ELSE i

\* The branch of the main loop that takes the line at index i, in the order
\* of the code.
Branch(lines, i) ==
    LET line == lines[i + 1]
    IN IF StartsWith(line, <<"#">>) THEN "heading"
       ELSE IF StartsWith(line, Fence) THEN "code"
       ELSE IF LooksLikeTable(line) /\ ParseTable(lines, i).table_data # <<>> THEN "table"
       ELSE IF ImageMatch(line).matched THEN "image"
       ELSE IF IsQuote(line) THEN "quote"
       ELSE IF IsBullet(line) THEN "bullet"
       ELSE IF IsOrdered(line) THEN "ordered"
       ELSE IF IsDivider(line) THEN "divider"
       ELSE "paragraph"

\* parse(content) is entered: lines 35-37.  The pending lists are those of
\* the parser, set by __init__ only.
ParseEnter ==
    /\ pc = "p_enter"
    /\ parser' = [parser EXCEPT !.lines = Split(args.content, NL), !.blocks = <<>>, !.i = 0]
    /\ pc' = "p_loop"
    /\ UNCHANGED <<op, args, env, calls, result, wf, w, ab, ft, dl, uploader, cache>>

\* The guard of one branch of the loop, and what every branch leaves alone.
ParseAt(branch) ==
    /\ pc = "p_loop"
    /\ parser.i < Len(parser.lines)
    /\ Branch(parser.lines, parser.i) = branch
    /\ UNCHANGED <<pc, op, args, env, calls, result, wf, w, ab, ft, dl, uploader, cache>>

\* Lines 43-48.
ParseHeading ==
    /\ ParseAt("heading")
    /\ LET line == parser.lines[parser.i + 1]
           level == LeadingHashes(line)
           text == Strip(Sub(line, level + 1, Len(line)))
       IN parser' = [parser EXCEPT !.blocks = Append(@, HeadingBlock(text, HeadingLevel(line))),
                                   !.i = @ + 1]

\* Lines 51-60.
ParseCode ==
    /\ ParseAt("code")
    /\ LET line == parser.lines[parser.i + 1]
           end == CodeEnd(parser.lines, parser.i + 1)
           code_lines == Sub(parser.lines, parser.i + 2, end)
       IN parser' = [parser EXCEPT
                        !.blocks = Append(@, CodeBlock(Join(code_lines, NL), FenceLanguage(line))),
                        !.i = end + 1]

\* Lines 63-69, when the grid is not empty.
ParseTableRegion ==
    /\ ParseAt("table")
    /\ LET t == ParseTable(parser.lines, parser.i)
       IN parser' = [parser EXCEPT
                        !.pending_tables = Append(@, <<Len(parser.blocks), t.table_data>>),
                        !.blocks = Append(@, TableBlock(t.table_data)),
                        !.i = @ + t.consumed]

\* Lines 72-80.
ParseImage ==
    /\ ParseAt("image")
    /\ LET m == ImageMatch(parser.lines[parser.i + 1])
       IN parser' = [parser EXCEPT
                        !.pending_images =
                            Append(@, <<Len(parser.blocks), m.img_path, IsUrl(m.img_path)>>),
                        !.blocks = Append(@, ImagePlaceholder(m.img_path)),
                        !.i = @ + 1]

\* Lines 83-89.
ParseQuote ==
    /\ ParseAt("quote")
    /\ LET end == RunEnd(parser.lines, parser.i, "quote")
           quote_lines == [k \in 1..(end - parser.i) |->
                              Strip(Tail(parser.lines[parser.i + k]))]
       IN parser' = [parser EXCEPT !.blocks = Append(@, QuoteBlock(Join(quote_lines, NL))),
                                   !.i = end]

\* Lines 92-99.
ParseBullets ==
    /\ ParseAt("bullet")
    /\ LET end == RunEnd(parser.lines, parser.i, "bullet")
           items == [k \in 1..(end - parser.i) |->
                        BulletBlock(Sub(parser.lines[parser.i + k], 3,
                                        Len(parser.lines[parser.i + k])))]
       IN parser' = [parser EXCEPT !.blocks = @ \o items, !.i = end]

\* Lines 102-109.
ParseOrdered ==
    /\ ParseAt("ordered")
    /\ LET end == RunEnd(parser.lines, parser.i, "ordered")
           items == [k \in 1..(end - parser.i) |->
                        LET l == parser.lines[parser.i + k]
                        IN OrderedBlock(Sub(l, OrderedPrefix(l) + 1, Len(l)))]
       IN parser' = [parser EXCEPT !.blocks = @ \o items, !.i = end]

\* Lines 112-115.
ParseDivider ==
    /\ ParseAt("divider")
    /\ parser' = [parser EXCEPT !.blocks = Append(@, DividerBlock), !.i = @ + 1]

\* Lines 118-121: a paragraph for a line that is not blank, nothing for a
\* blank one.  A line that looks like a table start and gave an empty grid
\* arrives here too.
ParseParagraph ==
    /\ ParseAt("paragraph")
    /\ LET line == parser.lines[parser.i + 1]
       IN parser' = [parser EXCEPT
                        !.blocks = IF Strip(line) # <<>> THEN Append(@, ParagraphBlock(line))
                                   ELSE @,
                        !.i = @ + 1]

\* Line 123, when the loop condition fails.
ParseReturn ==
    /\ pc = "p_loop"
    /\ parser.i >= Len(parser.lines)
    /\ result' = Returned(parser.blocks)
    /\ parser' = [parser EXCEPT !.parses = @ + 1]
    /\ pc' = "done"
    /\ UNCHANGED <<op, args, env, calls, wf, w, ab, ft, dl, uploader, cache>>

\* parse is called once more on the same parser, with another text.
ParseAgain(content) ==
    /\ pc = "done"
    /\ op = "parse"
    /\ parser.parses < MaxParses
    /\ args' = [content |-> content]
    /\ result' = NoResult
    /\ pc' = "p_enter"
    /\ UNCHANGED <<parser, op, env, calls, wf, w, ab, ft, dl, uploader, cache>>

----------------------------------------------------------------------------
(* append_blocks called on its own. *)

NoEnv == [md_exists |-> TRUE, source |-> <<>>, folder_files |-> <<>>,
          FEISHU_DEFAULT_WIKI_SPACE_ID |-> None, FEISHU_DEFAULT_WIKI_NODE_TOKEN |-> None,
          doc_items |-> <<>>, shortfalls |-> {0}, files |-> {}]

InitAppend ==
    /\ op = "append_blocks"
    /\ pc = "ab_enter"
    /\ \E n \in 0..MaxAppend :
          args = [document_id |-> DocId, blocks |-> [k \in 1..n |-> TextBlock(k - 1)]]
    /\ env = NoEnv
    /\ calls = <<>>
    /\ result = NoResult
    /\ wf = IdleWf
    /\ w = IdleW
    /\ ab = [IdleAb EXCEPT !.document_id = args.document_id, !.block_id = args.document_id,
                           !.blocks = args.blocks, !.ret = "done"]
    /\ ft = IdleFt
    /\ dl = IdleDl
    /\ uploader = None
    /\ cache = {}
    /\ parser = IdleParser

NextAppend == AppendBlocksEnter \/ AppendBlocksChunk

SpecAppend == InitAppend /\ [][NextAppend]_vars

----------------------------------------------------------------------------
(* fill_table called on its own. *)

CellStrings == {"", "x"}

\* The rows of at most c cells.
RowsUpTo(c) == UNION {[1..l -> CellStrings] : l \in 0..c}

\* The grids of r rows of at most c cells each, for r * c within MaxGridCells.
Grids ==
    UNION {[1..rc[1] -> RowsUpTo(rc[2])] :
             rc \in {x \in (0..MaxGridCells) \X (0..MaxGridCells) : x[1] * x[2] <= MaxGridCells}}

TableId == <<"blk", 0>>

InitFill ==
    /\ op = "fill_table"
    /\ pc = "ft_fetch"
    /\ \E g \in Grids :
          args = [document_id |-> DocId, table_block_id |-> TableId, table_data |-> g]
    /\ env = NoEnv
    /\ calls = <<>>
    /\ result = NoResult
    /\ wf = IdleWf
    /\ w = IdleW
    /\ ab = IdleAb
    /\ ft = [IdleFt EXCEPT !.table_block_id = args.table_block_id,
                           !.table_data = args.table_data, !.ret = "done"]
    /\ dl = IdleDl
    /\ uploader = None
    /\ cache = {}
    /\ parser = IdleParser

NextFill == FillTableFetch \/ FillTableCell

SpecFill == InitFill /\ [][NextFill]_vars

----------------------------------------------------------------------------
(* delete_document_content called on its own. *)

\* The block ids a listing may carry: the root, two children, or none at all.
ItemIds == {DocId, <<"blk", 1>>, <<"blk", 2>>, None}

Items(S, n) == UNION {[1..l -> [block_id : S]] : l \in 0..n}

InitDelete ==
    /\ op = "delete_document_content"
    /\ pc = "dl_list"
    /\ args = [document_id |-> DocId]
    /\ \E items \in Items(ItemIds, MaxItems) : env = [NoEnv EXCEPT !.doc_items = items]
    /\ calls = <<>>
    /\ result = NoResult
    /\ wf = IdleWf
    /\ w = IdleW
    /\ ab = IdleAb
    /\ ft = IdleFt
    /\ dl = [IdleDl EXCEPT !.document_id = args.document_id, !.ret = "done"]
    /\ uploader = None
    /\ cache = {}
    /\ parser = IdleParser

NextDeleteContent == DeleteList \/ DeleteBlock

SpecDelete == InitDelete /\ [][NextDeleteContent]_vars

----------------------------------------------------------------------------
(* The asset resolver called on its own, several times on one uploader. *)

Urls == {Ref("url", 1, ".png", ""), Ref("url", 2, "", "png"),
         Ref("url", 3, ".exe", "tiff"), Ref("url", 6, "", "")}

LocalRefs == {Ref("rel", 1, "", ""), Ref("abs", 2, "", "")}

LocalFiles == {<<DirA, 1>>, <<DirB, 1>>, <<RootDir, 2>>}

InitResolve ==
    /\ op = "resolve_image_path"
    /\ pc = "resolve"
    /\ args = [refs |-> Urls \cup LocalRefs]
    /\ \E fs \in SUBSET {<<DirA, 1>>, <<RootDir, 2>>} : env = [NoEnv EXCEPT !.files = fs]
    /\ calls = <<>>
    /\ result = Returned(<<>>)
    /\ wf = IdleWf
    /\ w = IdleW
    /\ ab = IdleAb
    /\ ft = IdleFt
    /\ dl = IdleDl
    /\ uploader = DirA
    /\ cache \in SUBSET {CachePath(u) : u \in Urls}
    /\ parser = IdleParser

NextResolve == ResolveImagePath

SpecResolve == InitResolve /\ [][NextResolve]_vars

----------------------------------------------------------------------------
(* _write_content_with_images called on its own, on a writer that may hold
   an uploader from an earlier call. *)

WriteRefs == {Ref("url", 1, ".png", ""), Ref("rel", 1, "", ""), Ref("abs", 2, "", "")}

WriteGrids == {<<>>, <<(<<>>)>>, <<(<<"x", "">>), <<"x">>>>}

Constructs(refs, grids) ==
    {Construct("text", NoRef, <<>>)}
        \cup {Construct("image", r, <<>>) : r \in refs}
        \cup {Construct("table", NoRef, g) : g \in grids}

Sources(refs, grids, n) == UNION {[1..l -> Constructs(refs, grids)] : l \in 0..n}

InitWrite ==
    /\ op = "_write_content_with_images"
    /\ pc = "w_enter"
    /\ \E src \in Sources(WriteRefs, WriteGrids, MaxBlocks) :
          args = [md_dir |-> DirB, doc_id |-> DocId, source |-> src]
    /\ env = [NoEnv EXCEPT !.files = {<<DirA, 1>>, <<DirB, 1>>}]
    /\ calls = <<>>
    /\ result = NoResult
    /\ wf = [IdleWf EXCEPT !.md_dir = args.md_dir, !.doc_id = args.doc_id,
                           !.blocks = ParsedBlocks(args.source),
                           !.pending_images = PendingImages(args.source),
                           !.pending_tables = PendingTables(args.source)]
    /\ w = IdleW
    /\ ab = IdleAb
    /\ ft = IdleFt
    /\ dl = IdleDl
    /\ uploader \in {None, DirA}
    /\ cache = {}
    /\ parser = IdleParser

NextWrite ==
    \/ WriteEnter \/ WriteLoop \/ WriteImage \/ UploadResolve \/ UploadPost
    \/ ReplaceImageToken \/ WriteTable \/ WriteReturn
    \/ AppendBlocksEnter \/ AppendBlocksChunk \/ FillTableFetch \/ FillTableCell

SpecWrite == InitWrite /\ [][NextWrite]_vars

----------------------------------------------------------------------------
(* write_file and update_document, on a fresh FeishuWriter. *)

SpecRefs == {Ref("url", 1, ".png", "")}

SpecGrids == {<<(<<"x">>)>>}

FolderToken == <<"folder", 1>>
WikiToken == <<"wikinode", 1>>
EnvNodeToken == <<"wikinode", 2>>
EnvSpaceId == <<"space", 2>>

MdPath == [dir |-> DirA, stem |-> "notes"]

\* What a folder may list: nothing of that name, one item of that name after
\* another item, or two items of that name.
Listings ==
    {<<>>,
     <<[name |-> "other", token |-> <<"file", 1>>], [name |-> "notes", token |-> <<"file", 2>>]>>,
     <<[name |-> "notes", token |-> <<"file", 3>>], [name |-> "notes", token |-> <<"file", 2>>]>>}

\* The arguments of write_file, with the environment they are read in; what
\* a call does not read is left at one value.
WriteFileCases ==
    {c \in [target : {"space", "folder", "wiki"},
            folder_token : {None, FolderToken},
            wiki_token : {None, WikiToken},
            check_duplicate : BOOLEAN,
            folder_files : Listings,
            space : {None, EnvSpaceId},
            node : {None, EnvNodeToken}] :
        /\ c.target # "wiki" => (c.wiki_token = None /\ c.space = None /\ c.node = None)
        /\ c.target = "wiki" => (~c.check_duplicate /\ c.folder_token = None)
        /\ ~(c.check_duplicate /\ c.folder_token # None) => c.folder_files = <<>>}

InitWriteFile ==
    /\ op = "write_file"
    /\ pc = "wf_start"
    /\ \E c \in WriteFileCases :
       \E src \in Sources(SpecRefs, SpecGrids, MaxSourceBlocks) :
       \E exists \in BOOLEAN :
          /\ (~exists) => (src = <<>>)
          /\ args = [md_path |-> MdPath, target |-> c.target,
                     folder_token |-> c.folder_token, wiki_token |-> c.wiki_token,
                     check_duplicate |-> c.check_duplicate]
          /\ env = [NoEnv EXCEPT !.md_exists = exists, !.source = src,
                                 !.folder_files = c.folder_files,
                                 !.FEISHU_DEFAULT_WIKI_SPACE_ID = c.space,
                                 !.FEISHU_DEFAULT_WIKI_NODE_TOKEN = c.node]

InitUpdate ==
    /\ op = "update_document"
    /\ pc = "ud_start"
    /\ \E id \in {DocId, OtherDocId} :
       \E src \in Sources(SpecRefs, SpecGrids, MaxSourceBlocks) :
       \E items \in Items({id, <<"blk", 1>>}, MaxItems - 1) :
       \E exists \in BOOLEAN :
          /\ (~exists) => (src = <<>> /\ items = <<>>)
          /\ args = [document_id |-> id, md_path |-> MdPath]
          /\ env = [NoEnv EXCEPT !.md_exists = exists, !.source = src,
                                 !.doc_items = items]

Init ==
    /\ InitWriteFile \/ InitUpdate
    /\ calls = <<>>
    /\ result = NoResult
    /\ wf = IdleWf
    /\ w = IdleW
    /\ ab = IdleAb
    /\ ft = IdleFt
    /\ dl = IdleDl
    /\ uploader = None
    /\ cache = {}
    /\ parser = IdleParser

Next ==
    \/ WriteFileStart \/ ListDocumentsInFolder \/ GetWikiSpaceId
    \/ CreateWikiDocument \/ CreateDocument
    \/ UpdateStart \/ DeleteList \/ DeleteBlock
    \/ WriteEnter \/ WriteLoop \/ WriteImage \/ UploadResolve \/ UploadPost
    \/ ReplaceImageToken \/ WriteTable \/ WriteReturn
    \/ AppendBlocksEnter \/ AppendBlocksChunk \/ FillTableFetch \/ FillTableCell

Spec == Init /\ [][Next]_vars

----------------------------------------------------------------------------
(* _parse_inline_formats called on its own. *)

InlineAlphabet == {"*", "_", BT, "[", "]", "(", ")", "a"}
TargetAlphabet == {"a", "_", ")"}

\* The strings over A of length lo..hi.
Strings(A, lo, hi) == UNION {[1..n -> A] : n \in lo..hi}

\* inner text wrapped in the delimiters of each construct.
Wrapped ==
    {open \o inner \o open :
        open \in {<<"*", "*">>, <<"_", "_">>, <<BT>>, <<"*">>, <<"_">>},
        inner \in Strings(InlineAlphabet, 1, MaxInnerLen)}

Links ==
    {<<"[">> \o t \o <<"]", "(">> \o u \o <<")">> :
        t \in Strings(InlineAlphabet, 1, MaxInnerLen),
        u \in Strings(TargetAlphabet, 1, MaxInnerLen)}

InlineTexts == Strings(InlineAlphabet, 0, MaxTextLen) \cup Wrapped \cup Links

InitInline ==
    /\ op = "_parse_inline_formats"
    /\ pc = "inline"
    /\ \E t \in InlineTexts : args = [text |-> t]
    /\ env = NoEnv
    /\ calls = <<>>
    /\ result = NoResult
    /\ wf = IdleWf
    /\ w = IdleW
    /\ ab = IdleAb
    /\ ft = IdleFt
    /\ dl = IdleDl
    /\ uploader = None
    /\ cache = {}
    /\ parser = IdleParser

NextInline == ParseInlineFormats

SpecInline == InitInline /\ [][NextInline]_vars

----------------------------------------------------------------------------
(* parse called on a new parser. *)

\* n times the character "#".
Hashes(n) == [k \in 1..n |-> "#"]

\* The lines the texts are made of: each construct of the parser, with the
\* cases at its edges.
SampleLines ==
    { Hashes(1) \o <<"a">>,
      Hashes(MaxHeadingLevel) \o <<" ", "a">>,
      Hashes(MaxHeadingLevel + 1) \o <<"a">>,
      <<" ", "#", "a">>,
      Fence,
      Fence \o <<"g", "o">>,
      <<"|", "a", "|", "b", "|">>,
      <<"|", "-", "|", ":", "-", "|">>,
      <<"|", "a">>,
      <<" ", "|", "|">>,
      <<"!", "[", "a", "]", "(", "p", ")">>,
      <<"!", "[", "]", "(", "h", "t", "t", "p", ":", "/", "/", "u", ")", "a">>,
      <<">", " ", "a">>,
      <<"-", " ", "a">>,
      <<"1", ".", " ", "a">>,
      <<"-", "-", "-">>,
      <<>>,
      <<"a">> }

\* The texts of 1..n lines from L, joined with newlines.
Texts(L, n) == {Join(ls, NL) : ls \in UNION {[1..k -> L] : k \in 1..n}}

InitParse ==
    /\ op = "parse"
    /\ pc = "p_enter"
    /\ \E content \in Texts(SampleLines, MaxLines) : args = [content |-> content]
    /\ env = NoEnv
    /\ calls = <<>>
    /\ result = NoResult
    /\ wf = IdleWf
    /\ w = IdleW
    /\ ab = IdleAb
    /\ ft = IdleFt
    /\ dl = IdleDl
    /\ uploader = None
    /\ cache = {}
    /\ parser = IdleParser

NextParse ==
    \/ ParseEnter \/ ParseHeading \/ ParseCode \/ ParseTableRegion \/ ParseImage
    \/ ParseQuote \/ ParseBullets \/ ParseOrdered \/ ParseDivider \/ ParseParagraph
    \/ ParseReturn

SpecParse == InitParse /\ [][NextParse]_vars

\* One iteration of the main loop: lines 39-121.
Iteration ==
    \/ ParseHeading
    \/ ParseCode
    \/ ParseTableRegion
    \/ ParseImage
    \/ ParseQuote
    \/ ParseBullets
    \/ ParseOrdered
    \/ ParseDivider
    \/ ParseParagraph

\* parse has a step before its return: it was entered and has not split the
\* text yet, or the condition of the loop (line 39) holds.  Branch gives a
\* branch for every line, so this is when ParseEnter or Iteration is enabled.
Running == pc = "p_enter" \/ (pc = "p_loop" /\ parser.i < Len(parser.lines))

\* parse runs to its return, a started call is not suspended: weak fairness
\* of the return, and weak fairness of the steps before it, written with
\* Running for their enabledness.
FairSpecParse ==
    /\ SpecParse
    /\ WF_vars(ParseReturn)
    /\ ([]<>(~Running) \/ []<><<ParseEnter \/ Iteration>>_vars)

----------------------------------------------------------------------------
(* parse called several times on one parser. *)

ReparseLines ==
    { <<"!", "[", "a", "]", "(", "p", ")">>,
      <<"|", "a", "|", "b", "|">>,
      <<"a">> }

InitReparse ==
    /\ op = "parse"
    /\ pc = "p_enter"
    /\ \E content \in Texts(ReparseLines, MaxReparseLines) : args = [content |-> content]
    /\ env = NoEnv
    /\ calls = <<>>
    /\ result = NoResult
    /\ wf = IdleWf
    /\ w = IdleW
    /\ ab = IdleAb
    /\ ft = IdleFt
    /\ dl = IdleDl
    /\ uploader = None
    /\ cache = {}
    /\ parser = IdleParser

NextReparse ==
    \/ ParseEnter \/ ParseTableRegion \/ ParseImage \/ ParseParagraph \/ ParseReturn
    \/ \E content \in Texts(ReparseLines, MaxReparseLines) : ParseAgain(content)

SpecReparse == InitReparse /\ [][NextReparse]_vars

----------------------------------------------------------------------------
(* write_file and update_document called one after another on one
   FeishuWriter, for source files in two directories. *)

\* The image files on disk: one beside each source file and one elsewhere.
SeqFiles == {<<DirA, 1>>, <<DirB, 2>>, <<RootDir, 3>>}

\* Relative references to the two files, an absolute reference to the third
\* and one to a file that does not exist.
SeqRefs == {Ref("rel", 1, "", ""), Ref("rel", 2, "", ""),
            Ref("abs", 3, "", ""), Ref("abs", 4, "", "")}

\* The parsed source of a file: one image reference.
SeqSources == {<<Construct("image", r, <<>>)>> : r \in SeqRefs}

\* One call: the operation, the directory of its source file and the parsed
\* source.
SeqCalls == [op : {"write_file", "update_document"}, dir : {DirA, DirB}, source : SeqSources]

SeqArgs(c) ==
    IF c.op = "write_file"
    THEN [md_path |-> [dir |-> c.dir, stem |-> "notes"], target |-> "space",
          folder_token |-> None, wiki_token |-> None, check_duplicate |-> FALSE]
    ELSE [document_id |-> DocId, md_path |-> [dir |-> c.dir, stem |-> "notes"]]

SeqEnv(c) ==
    [NoEnv EXCEPT !.source = c.source, !.files = SeqFiles,
                  !.doc_items = <<[block_id |-> <<"blk", 1>>]>>]

SeqEntry(c) == IF c.op = "write_file" THEN "wf_start" ELSE "ud_start"

\* The calls started so far: each issues one creation or one listing request.
CallsStarted ==
    Cardinality({k \in 1..Len(calls) : calls[k].api \in {"create_document", "list_blocks"}})

InitSequence ==
    /\ \E c \in SeqCalls :
          /\ op = c.op
          /\ args = SeqArgs(c)
          /\ env = SeqEnv(c)
          /\ pc = SeqEntry(c)
    /\ calls = <<>>
    /\ result = NoResult
    /\ wf = IdleWf
    /\ w = IdleW
    /\ ab = IdleAb
    /\ ft = IdleFt
    /\ dl = IdleDl
    /\ uploader = None
    /\ cache = {}
    /\ parser = IdleParser

\* The next call on the same writer: self.uploader is what the call before
\* left.
StartCall(c) ==
    /\ pc = "done"
    /\ CallsStarted < MaxCalls
    /\ op' = c.op
    /\ args' = SeqArgs(c)
    /\ env' = SeqEnv(c)
    /\ pc' = SeqEntry(c)
    /\ result' = NoResult
    /\ wf' = IdleWf
    /\ w' = IdleW
    /\ ab' = IdleAb
    /\ ft' = IdleFt
    /\ dl' = IdleDl
    /\ UNCHANGED <<calls, uploader, cache, parser>>

NextSequence ==
    \/ WriteFileStart \/ CreateDocument
    \/ UpdateStart \/ DeleteList \/ DeleteBlock
    \/ WriteEnter \/ WriteLoop \/ WriteImage \/ UploadResolve \/ UploadPost
    \/ ReplaceImageToken \/ WriteReturn
    \/ \E c \in SeqCalls : StartCall(c)

SpecSequence == InitSequence /\ [][NextSequence]_vars

----------------------------------------------------------------------------
(* Properties. *)

RECURSIVE Flatten(_)
\* The concatenation of a sequence of sequences.
Flatten(ss) == IF ss = <<>> THEN <<>> ELSE Head(ss) \o Flatten(Tail(ss))

\* The payloads of the requests k of the history that satisfy Keep.
Payloads(Keep(_)) ==
    LET RECURSIVE Go(_)
        Go(k) == IF k > Len(calls) THEN <<>>
                 ELSE (IF Keep(calls[k]) THEN <<calls[k].payload>> ELSE <<>>) \o Go(k + 1)
    IN Go(1)

IsAppend(c) == c.api = "append_children"
IsAcceptedAppend(c) == c.api = "append_children" /\ c.outcome = "ok"

\* What the accepted append requests have put under the document root.
AppliedBlocks == Flatten(Payloads(IsAcceptedAppend))

IsPrefix(s, t) == Len(s) <= Len(t) /\ s = SubSeq(t, 1, Len(s))

\* C3: append_blocks sends consecutive chunks of at most 50 blocks, in list
\* order, whose concatenation is the input; the first chunk answered with a
\* non-zero code makes it return false with no further chunk sent and no
\* accepted chunk undone; it returns true only when every chunk was accepted,
\* and for an empty list it returns true without a request.
C3_AppendChunks ==
    LET sent == Flatten(Payloads(IsAppend))
        n == Len(args.blocks)
    IN /\ \A k \in 1..Len(calls) :
            /\ calls[k].api = "append_children"
            /\ calls[k].target = args.document_id
            /\ Len(calls[k].payload) \in 1..batch_size
            /\ k < Len(calls) => calls[k].outcome = "ok"
       /\ IsPrefix(sent, args.blocks)
       /\ (pc = "done" /\ result.kind = "returned" /\ result.value = TRUE) =>
            /\ \A k \in 1..Len(calls) : calls[k].outcome = "ok"
            /\ sent = args.blocks
            /\ AppliedBlocks = args.blocks
            /\ n = 0 => calls = <<>>
       /\ (pc = "done" /\ result.kind = "returned" /\ result.value = FALSE) =>
            /\ calls # <<>>
            /\ calls[Len(calls)].outcome = "apperr"
            /\ AppliedBlocks = SubSeq(args.blocks, 1, batch_size * (Len(calls) - 1))
       /\ (pc = "done" /\ n = 0) => (result = Returned(TRUE) /\ calls = <<>>)
       /\ (pc = "done" /\ result.kind = "returned") => result.value \in BOOLEAN

\* Two chunks were accepted and the third was refused.
C3_Witness ==
    /\ op = "append_blocks" /\ pc = "done"
    /\ result = Returned(FALSE)
    /\ Len(calls) = 3
    /\ Len(AppliedBlocks) = 2 * batch_size

\* The requests of the history made through api, as <<target, payload>>.
CallsOf(api) ==
    LET RECURSIVE Go(_)
        Go(k) == IF k > Len(calls) THEN <<>>
                 ELSE (IF calls[k].api = api
                       THEN <<(<<calls[k].target, calls[k].payload>>)>> ELSE <<>>) \o Go(k + 1)
    IN Go(1)

\* The width of a grid: the greatest row length, 0 for no rows.
Width(data) ==
    IF data = <<>> THEN 0
    ELSE CHOOSE m \in {Len(data[r]) : r \in 1..Len(data)} :
             \A r \in 1..Len(data) : Len(data[r]) <= m

\* The fill calls the claim allows, in row-major order: grid cell (r, c) goes
\* to container r * C + c when that container was fetched, row r has a cell c
\* and the cell's string is not empty.
ExpectedFills(data, cells) ==
    LET C == Width(data)
        RECURSIVE Go(_)
        Go(k) ==
            IF k >= Len(data) * C THEN <<>>
            ELSE LET r == k \div C
                     c == k % C
                 IN (IF /\ k < Len(cells)
                        /\ c < Len(data[r + 1])
                        /\ data[r + 1][c + 1] # ""
                     THEN <<(<<cells[k + 1].block_id, data[r + 1][c + 1]>>)>>
                     ELSE <<>>) \o Go(k + 1)
    IN Go(0)

\* The cell containers the fetch of a fill_table run returned.
FetchedCells == IF calls # <<>> /\ calls[1].outcome = "ok" THEN calls[1].reply ELSE <<>>

\* C8: fill_table fetches the cell containers exactly once, first, and then
\* issues, in row-major order, exactly the fill calls for the grid cells (r, c)
\* with r * C + c below the number of fetched containers, c below the length
\* of row r and a non-empty string, each to container r * C + c.
C8_FillRowMajor ==
    /\ calls # <<>> =>
         /\ calls[1].api = "get_children"
         /\ calls[1].target = args.table_block_id
    /\ \A k \in 2..Len(calls) : calls[k].api = "fill_cell"
    /\ IsPrefix(CallsOf("fill_cell"), ExpectedFills(args.table_data, FetchedCells))
    /\ pc = "done" =>
         /\ Len(calls) >= 1
         /\ CallsOf("fill_cell") = ExpectedFills(args.table_data, FetchedCells)

\* A 2 x 3 grid with an empty string, filled from fewer than six containers.
C8_Witness ==
    /\ op = "fill_table" /\ pc = "done"
    /\ Len(args.table_data) = 2
    /\ \A r \in 1..2 : Len(args.table_data[r]) = 3
    /\ \E r \in 1..2, c \in 1..3 : args.table_data[r][c] = ""
    /\ args.table_data[2][3] = "x"
    /\ Len(FetchedCells) = 5
    /\ Len(CallsOf("fill_cell")) >= 3

\* C9: a fill call that fails does not end fill_table: once the containers
\* were fetched it returns true, having attempted every eligible cell.
C9_FillGoesOn ==
    /\ \A k \in 2..Len(calls) :
         (calls[k].outcome # "ok") =>
            \/ k < Len(calls)
            \/ pc = "ft_cell"
            \/ k - 1 = Len(ExpectedFills(args.table_data, FetchedCells))
    /\ (pc = "done" /\ calls[1].outcome = "ok") =>
         /\ result = Returned(TRUE)
         /\ Len(calls) - 1 = Len(ExpectedFills(args.table_data, FetchedCells))

\* A fill was refused, another hit an HTTP error, and a later cell was filled.
C9_Witness ==
    /\ op = "fill_table" /\ pc = "done"
    /\ result = Returned(TRUE)
    /\ \E j, k, l \in 2..Len(calls) :
         /\ j < k /\ k < l
         /\ calls[j].outcome = "apperr"
         /\ calls[k].outcome = "http"
         /\ calls[l].outcome = "ok"

\* The listed blocks that carry an id other than the document's, as delete calls.
ExpectedDeletes(items, document_id) ==
    LET RECURSIVE Go(_)
        Go(k) == IF k > Len(items) THEN <<>>
                 ELSE (IF items[k].block_id # None /\ items[k].block_id # document_id
                       THEN <<(<<items[k].block_id, None>>)>> ELSE <<>>) \o Go(k + 1)
    IN Go(1)

\* C7: delete_document_content issues one delete request for every listed
\* block whose id differs from the document id, in listing order, and none for
\* the root block; whatever the delete requests are answered, it returns true
\* when the listing succeeded and false when the listing had a non-zero code.
C7_DeleteAllButRoot ==
    LET listed == IF calls # <<>> /\ calls[1].outcome = "ok" THEN calls[1].reply ELSE <<>>
    IN /\ calls # <<>> => calls[1].api = "list_blocks"
       /\ \A k \in 2..Len(calls) :
            calls[k].api = "delete_block" /\ calls[k].target # args.document_id
       /\ IsPrefix(CallsOf("delete_block"), ExpectedDeletes(listed, args.document_id))
       /\ (pc = "done" /\ calls[1].outcome = "ok") =>
            /\ result = Returned(TRUE)
            /\ CallsOf("delete_block") = ExpectedDeletes(listed, args.document_id)
       /\ (pc = "done" /\ calls[1].outcome = "apperr") =>
            /\ result = Returned(FALSE)
            /\ Len(calls) = 1

\* The root and two children were listed; one delete was refused, one hit an
\* HTTP error, and the call returned true.
C7_Witness ==
    /\ op = "delete_document_content" /\ pc = "done"
    /\ result = Returned(TRUE)
    /\ \E k \in 1..Len(env.doc_items) : env.doc_items[k].block_id = DocId
    /\ Len(calls) = 3
    /\ calls[2].outcome = "apperr"
    /\ calls[3].outcome = "http"

\* The fetch requests of the history for url.
FetchesOf(url) == {k \in 1..Len(calls) : calls[k].api = "fetch_url" /\ calls[k].target = url}

\* The resolutions of url so far, as indices into the returned list.
ResolutionsOf(url) == {k \in 1..Len(result.value) : result.value[k].ref = url}

\* C10 as stated: a remote URL resolved twice has been fetched exactly once,
\* and both resolutions returned the same local path.
C10_ExactlyOneFetch ==
    \A url \in Urls :
        Cardinality(ResolutionsOf(url)) = 2 =>
            /\ Cardinality(FetchesOf(url)) = 1
            /\ \A j, k \in ResolutionsOf(url) : result.value[j].path = result.value[k].path

\* C10 amended: once a resolution of a remote URL returned a path, every later
\* resolution of that URL returns the same path, the cache file named from the
\* URL hash, without a request; two resolutions fetch exactly once when the
\* cache file was missing before the first and the first fetch succeeded.  A
\* resolution whose fetch fails returns None and caches nothing, so the next
\* resolution of that URL fetches again.
C10_FetchedAtMostOnceAfterSuccess ==
    \A url \in Urls :
        LET r == result.value
        IN /\ \A j, k \in ResolutionsOf(url) :
                (j < k /\ r[j].path # None) =>
                    /\ r[k].path = r[j].path
                    /\ r[k].path = CachePath(url)
                    /\ ~r[k].requested
                    /\ r[k].cached_before
           /\ \A j \in ResolutionsOf(url) :
                /\ r[j].requested = ~r[j].cached_before
                /\ (r[j].path = None) => (r[j].requested /\ (j = Len(r) => CachePath(url) \notin cache))
                /\ (r[j].path # None) => CachePath(url) \in cache
           /\ (/\ Cardinality(ResolutionsOf(url)) = 2
               /\ \E j \in ResolutionsOf(url) :
                     /\ \A k \in ResolutionsOf(url) : j <= k
                     /\ ~r[j].cached_before /\ r[j].path # None)
               => Cardinality(FetchesOf(url)) = 1

\* The same URL was resolved twice in a row: fetched the first time, taken
\* from the cache the second.
C10_Witness ==
    /\ op = "resolve_image_path"
    /\ Len(result.value) = 2
    /\ result.value[1].ref = result.value[2].ref
    /\ result.value[1].ref.kind = "url"
    /\ result.value[1].requested /\ result.value[1].path # None
    /\ ~result.value[2].requested
    /\ Len(calls) = 1

\* The requests that put content under the document root.
CreatesContent(c) == c.api \in {"append_children", "create_image", "create_table"}

\* The block positions a content-creating request submits: those of the blocks
\* of an appended batch, or the position the loop was at for a placeholder.
Submitted(c) ==
    IF c.api = "append_children"
    THEN {c.payload[k].content : k \in 1..Len(c.payload)}
    ELSE {c.at}

\* C1: the write procedure issues the content-creating requests on the
\* document root in block-position order: every position submitted by an
\* earlier request is below every position submitted by a later one, a batch
\* holds ordinary blocks only, and a placeholder or table request is issued at
\* the position of an image or table block.
C1_PositionOrder ==
    /\ \A j, k \in 1..Len(calls) :
         (j < k /\ CreatesContent(calls[j]) /\ CreatesContent(calls[k])) =>
            \A p \in Submitted(calls[j]), q \in Submitted(calls[k]) : p < q
    /\ \A k \in 1..Len(calls) :
         /\ CreatesContent(calls[k]) => calls[k].target = args.doc_id
         /\ calls[k].api = "append_children" =>
               \A n \in 1..Len(calls[k].payload) :
                  /\ calls[k].payload[n].block_type = "text"
                  /\ args.source[calls[k].payload[n].content + 1].kind = "text"
         /\ calls[k].api = "create_image" => args.source[calls[k].at + 1].kind = "image"
         /\ calls[k].api = "create_table" => args.source[calls[k].at + 1].kind = "table"

\* A paragraph, an image and a paragraph were written: a batch, the
\* placeholder with its upload and binding, and a second batch.
C1_Witness ==
    /\ op = "_write_content_with_images" /\ pc = "done"
    /\ result.kind = "returned"
    /\ Len(args.source) = 3
    /\ args.source[1].kind = "text"
    /\ args.source[2].kind = "image"
    /\ args.source[3].kind = "text"
    /\ Len(calls) >= 5
    /\ calls[1].api = "append_children"
    /\ calls[2].api = "create_image"
    /\ calls[Len(calls)].api = "append_children"
    /\ \A k \in 1..Len(calls) : calls[k].outcome = "ok"

\* The parsed source the running operation writes.
Source == IF op = "_write_content_with_images" THEN args.source ELSE env.source

\* Position p of the source was processed: its block was submitted.
Processed(p) ==
    \/ Source[p + 1].kind = "table" /\ (Source[p + 1].data = <<>>)
    \/ \E k \in 1..Len(calls) : CreatesContent(calls[k]) /\ p \in Submitted(calls[k])

\* C2: no failure of a remote step, whether a non-zero code or an HTTP error,
\* aborts the write procedure: when it ends it has processed every block
\* position and returns its image-upload count.
C2_NoStepAborts ==
    pc = "done" =>
        /\ result.kind = "returned"
        /\ \A p \in 0..(Len(args.source) - 1) : Processed(p)

\* The requests that create a document or a library node.
IsCreation(c) == c.api \in {"create_document", "create_wiki_node"}

\* The requests of the interleaved write procedure.
IsContentWrite(c) ==
    c.api \in {"append_children", "create_image", "create_table", "get_children",
               "fill_cell", "fetch_url", "upload_media", "replace_image"}

\* C4: write_file with check_duplicate and a folder token, when the folder's
\* listing holds an item named like the source file's title, returns the
\* duplicate outcome (success false, the message and existing_doc carrying the
\* first such item) and issues no creation request and no content-write
\* request: the listing is the only request.
C4_DuplicateShortCircuits ==
    (/\ op = "write_file"
     /\ args.check_duplicate /\ args.folder_token # None
     /\ calls # <<>>
     /\ calls[1].api = "list_files"
     /\ \E k \in 1..Len(calls[1].reply) : calls[1].reply[k].name = args.md_path.stem)
    => LET docs == calls[1].reply
           first == CHOOSE k \in 1..Len(docs) :
                       /\ docs[k].name = args.md_path.stem
                       /\ \A j \in 1..(k - 1) : docs[j].name # args.md_path.stem
       IN /\ pc = "done"
          /\ Len(calls) = 1
          /\ calls[1].target = args.folder_token
          /\ result.kind = "returned"
          /\ result.value.success = FALSE
          /\ result.value.document_id = None
          /\ result.value.message = <<"duplicate", docs[first].token, args.md_path.stem>>
          /\ result.value.existing_doc = docs[first]

\* The folder listed another item and then one named like the title.
C4_Witness ==
    /\ op = "write_file" /\ pc = "done"
    /\ args.check_duplicate /\ args.folder_token # None
    /\ Len(calls) = 1 /\ calls[1].api = "list_files" /\ calls[1].outcome = "ok"
    /\ Len(calls[1].reply) = 2
    /\ calls[1].reply[1].name # args.md_path.stem
    /\ calls[1].reply[2].name = args.md_path.stem
    /\ result.kind = "returned"
    /\ result.value.existing_doc = calls[1].reply[2]
    /\ Len(env.source) > 0

\* A failure result of write_file.
IsFailure(r) ==
    /\ r.kind = "returned"
    /\ r.value.success = FALSE
    /\ r.value.document_id = None
    /\ r.value.message # <<>>

IsDeletion(c) == c.api \in {"list_blocks", "delete_block"}

\* C6: in update_document every delete request comes before the first
\* content-write request; the write procedure runs whatever way the deletion
\* step ended; and the result is success with the document id that was
\* passed in.  Stated for an existing source file, and apart from an append
\* that is answered with an HTTP error status.
C6_DeleteThenWrite ==
    (op = "update_document" /\ env.md_exists) =>
        /\ \A j, k \in 1..Len(calls) :
             (IsContentWrite(calls[j]) /\ IsDeletion(calls[k])) => k < j
        /\ (/\ pc = "done"
            /\ \A k \in 1..Len(calls) :
                  ~(calls[k].api = "append_children" /\ calls[k].outcome = "http"))
            => /\ result.kind = "returned"
               /\ result.value.success
               /\ result.value.document_id = args.document_id
               /\ \A p \in 0..(Len(env.source) - 1) : Processed(p)

\* text is inner wrapped in open and close, inner non-empty and free of the
\* characters of close.
Spans(text, open, close) ==
    /\ Len(text) > Len(open) + Len(close)
    /\ StartsWith(text, open) /\ EndsWith(text, close)
    /\ \A j \in (Len(open) + 1)..(Len(text) - Len(close)) : text[j] # close[1]

Inner(text, open, close) == Sub(text, Len(open) + 1, Len(text) - Len(close))

\* text is [label](target), label free of "]" and target free of ")".
SpansLink(text) ==
    /\ Spans(text, <<"[">>, <<")">>)
    /\ \E j \in 3..(Len(text) - 3) :
          /\ HasAt(text, j, <<"]", "(">>)
          /\ \A h \in 2..(j - 1) : text[h] # "]"

LinkLabel(text) ==
    LET j == CHOOSE j \in 3..(Len(text) - 3) : HasAt(text, j, <<"]", "(">>)
                                                /\ \A h \in 2..(j - 1) : text[h] # "]"
    IN Sub(text, 2, j - 1)

LinkTarget(text) == Sub(text, Len(LinkLabel(text)) + 4, Len(text) - 1)

\* C17: when one inline construct spans the whole text (bold with ** or __,
\* inline code, italic with * or _, or a link), inline parsing returns
\* exactly one run, with the style of the construct, the inner text as its
\* content and, for a link, the target; no plain run before or after it.
C17_SingleConstructSingleRun ==
    (op = "_parse_inline_formats" /\ pc = "done") =>
        LET text == args.text
            runs == result.value
            One(open, close, style) ==
                Spans(text, open, close) =>
                    runs = <<Run(Inner(text, open, close), style, None)>>
        IN /\ One(<<"*", "*">>, <<"*", "*">>, "bold")
           /\ One(<<"_", "_">>, <<"_", "_">>, "bold")
           /\ One(<<BT>>, <<BT>>, "inline_code")
           /\ One(<<"*">>, <<"*">>, "italic")
           /\ One(<<"_">>, <<"_">>, "italic")
           /\ SpansLink(text) =>
                 runs = <<Run(LinkLabel(text), "link", LinkTarget(text))>>

\* A bold text whose inner text holds the delimiter of another construct was
\* parsed into its single run.
C17_Witness ==
    /\ op = "_parse_inline_formats" /\ pc = "done"
    /\ args.text = <<"*", "*", "a", "_", "*", "*">>
    /\ result.value = <<Run(<<"a", "_">>, "bold", None)>>

IsImagePlaceholder(b) == "image_path" \in DOMAIN b
IsTablePlaceholder(b) == "table_data" \in DOMAIN b

\* The entries of a pending list that carry position p.
EntriesAt(pending, p) == {k \in 1..Len(pending) : pending[k][1] = p}

\* C11: after every call to parse, each entry of the pending-image list and
\* of the pending-table list carries a position at which the returned
\* sequence holds the image placeholder with that reference and origin kind,
\* or the table placeholder with that grid, and every placeholder of the
\* returned sequence has exactly one entry.
C11_PendingMatchesBlocks ==
    (op = "parse" /\ pc = "done") =>
        LET blocks == result.value
            images == parser.pending_images
            tables == parser.pending_tables
        IN /\ \A k \in 1..Len(images) :
                 /\ images[k][1] < Len(blocks)
                 /\ IsImagePlaceholder(blocks[images[k][1] + 1])
                 /\ blocks[images[k][1] + 1].block_type = IMAGE_PLACEHOLDER
                 /\ blocks[images[k][1] + 1].image_path = images[k][2]
                 /\ blocks[images[k][1] + 1].is_url = images[k][3]
           /\ \A k \in 1..Len(tables) :
                 /\ tables[k][1] < Len(blocks)
                 /\ IsTablePlaceholder(blocks[tables[k][1] + 1])
                 /\ blocks[tables[k][1] + 1].block_type = TABLE_PLACEHOLDER
                 /\ blocks[tables[k][1] + 1].table_data = tables[k][2]
           /\ \A p \in 0..(Len(blocks) - 1) :
                 /\ IsImagePlaceholder(blocks[p + 1]) => Cardinality(EntriesAt(images, p)) = 1
                 /\ IsTablePlaceholder(blocks[p + 1]) => Cardinality(EntriesAt(tables, p)) = 1

\* The requests issued for the block at position p.
At(api, p) == {k \in 1..Len(calls) : calls[k].api = api /\ calls[k].at = p}

\* The positions of the pending images of the source.
ImagePositions == {p \in 0..(Len(Source) - 1) : Source[p + 1].kind = "image"}

\* C12: for each pending image the asset is resolved and uploaded only after
\* the creation of an image placeholder succeeded for it, the upload goes
\* against that placeholder, the binding comes only after the upload returned
\* a token and binds that token to that same placeholder, and the returned
\* count is the number of pending images whose binding succeeded.
C12_UploadAfterPlaceholder ==
    op = "_write_content_with_images" =>
        /\ \A k \in 1..Len(calls) :
             /\ calls[k].api \in {"create_image", "fetch_url", "upload_media", "replace_image"} =>
                   calls[k].at \in ImagePositions
             /\ calls[k].api \in {"fetch_url", "upload_media"} =>
                   \E j \in 1..(k - 1) :
                      /\ calls[j].api = "create_image" /\ calls[j].at = calls[k].at
                      /\ calls[j].outcome = "ok" /\ calls[j].reply # None
                      /\ calls[k].api = "upload_media" => calls[k].target = calls[j].reply
             /\ calls[k].api = "replace_image" =>
                   \E j \in 1..(k - 1) :
                      /\ calls[j].api = "upload_media" /\ calls[j].at = calls[k].at
                      /\ calls[j].outcome = "ok" /\ calls[j].reply # None
                      /\ calls[k].payload = calls[j].reply
                      /\ calls[k].target = calls[j].target
        /\ \A p \in ImagePositions :
             /\ Cardinality(At("create_image", p)) <= 1
             /\ Cardinality(At("upload_media", p)) <= 1
             /\ Cardinality(At("replace_image", p)) <= 1
        /\ (pc = "done" /\ result.kind = "returned") =>
             result.value =
                Cardinality({p \in ImagePositions :
                    \E k \in At("replace_image", p) : calls[k].outcome = "ok"})

\* Two images: the first was uploaded and bound, the binding of the second
\* was refused, and the count returned is one.
C12_Witness ==
    /\ op = "_write_content_with_images" /\ pc = "done"
    /\ Cardinality(ImagePositions) = 2
    /\ \E j \in At("replace_image", 0) : calls[j].outcome = "ok"
    /\ \E k \in 1..Len(calls) :
          calls[k].api = "replace_image" /\ calls[k].at > 0 /\ calls[k].outcome # "ok"
    /\ result.kind = "returned"
    /\ result.value = 1

\* The grid of the pending table at position p.
GridAt(p) == Source[p + 1].data

\* C13: for each pending table create_table is called with the number of
\* grid rows and the greatest row length, never when one of them is zero,
\* and fill_table runs only on the identifier a successful create_table
\* returned for that table.
C13_TableDimensions ==
    op = "_write_content_with_images" =>
        \A k \in 1..Len(calls) :
           /\ calls[k].api = "create_table" =>
                 /\ Source[calls[k].at + 1].kind = "table"
                 /\ calls[k].payload[1] = Len(GridAt(calls[k].at))
                 /\ \A r \in 1..Len(GridAt(calls[k].at)) :
                       Len(GridAt(calls[k].at)[r]) <= calls[k].payload[2]
                 /\ \E r \in 1..Len(GridAt(calls[k].at)) :
                       Len(GridAt(calls[k].at)[r]) = calls[k].payload[2]
                 /\ calls[k].payload[1] > 0 /\ calls[k].payload[2] > 0
                 /\ Cardinality(At("create_table", calls[k].at)) = 1
           /\ calls[k].api = "get_children" =>
                 \E j \in 1..(k - 1) :
                    /\ calls[j].api = "create_table" /\ calls[j].at = calls[k].at
                    /\ calls[j].outcome = "ok" /\ calls[j].reply # None
                    /\ calls[k].target = calls[j].reply
           /\ calls[k].api = "fill_cell" =>
                 \E j \in 1..(k - 1) :
                    /\ calls[j].api = "get_children" /\ calls[j].at = calls[k].at
                    /\ calls[j].outcome = "ok"

\* A grid of one row without cells was passed over without a request, and a
\* grid of two rows was created as 2 x 2 and filled.
C13_Witness ==
    /\ op = "_write_content_with_images" /\ pc = "done"
    /\ result.kind = "returned"
    /\ Len(Source) = 2
    /\ Source[1].kind = "table" /\ GridAt(0) = <<(<<>>)>>
    /\ Source[2].kind = "table" /\ Len(GridAt(1)) = 2
    /\ Len(calls) >= 3
    /\ calls[1].api = "create_table" /\ calls[1].at = 1 /\ calls[1].payload = <<2, 2>>
    /\ calls[1].outcome = "ok"
    /\ calls[2].api = "get_children" /\ calls[2].target = calls[1].reply
    /\ calls[3].api = "fill_cell"

\* Position p holds an ordinary block.
Ordinary(p) == p \in 0..(Len(Source) - 1) /\ Source[p + 1].kind = "text"

\* lo..hi is a maximal run of positions of ordinary blocks.
MaximalRun(lo, hi) ==
    /\ lo <= hi
    /\ \A p \in lo..hi : Ordinary(p)
    /\ ~Ordinary(lo - 1)
    /\ ~Ordinary(hi + 1)

\* batch is the blocks of the positions lo..hi, in order.
IsRun(batch, lo, hi) ==
    /\ Len(batch) = hi - lo + 1
    /\ \A n \in 1..Len(batch) : batch[n] = TextBlock(lo + n - 1)

\* C19: in the write procedure every call of append_blocks carries a batch
\* that is not empty and is a maximal run of consecutive ordinary blocks in
\* their order, and when no call raises every ordinary block of the
\* sequence has been passed in exactly one call.
C19_OrdinaryBlocksOnce ==
    op = "_write_content_with_images" =>
        /\ pc = "ab_enter" =>
             /\ ab.blocks # <<>>
             /\ \E lo \in 0..Len(Source) :
                   MaximalRun(lo, w.i - 1) /\ IsRun(ab.blocks, lo, w.i - 1)
        /\ \A k \in 1..Len(calls) :
             calls[k].api = "append_children" =>
                \E lo, hi \in 0..Len(Source) :
                   MaximalRun(lo, hi) /\ IsRun(calls[k].payload, lo, hi)
        /\ \A p \in 0..(Len(Source) - 1) :
             Ordinary(p) =>
                /\ Cardinality({k \in 1..Len(calls) :
                       calls[k].api = "append_children" /\ p \in Submitted(calls[k])}) <= 1
                /\ (pc = "done" /\ result.kind = "returned") =>
                       \E k \in 1..Len(calls) :
                          calls[k].api = "append_children" /\ p \in Submitted(calls[k])

\* A paragraph, a grid without rows and a paragraph: one call for each
\* paragraph, though no request was made for the grid between them.
C19_Witness ==
    /\ op = "_write_content_with_images" /\ pc = "done"
    /\ result.kind = "returned"
    /\ Len(Source) = 3
    /\ Ordinary(0) /\ Ordinary(2)
    /\ Source[2].kind = "table" /\ GridAt(1) = <<>>
    /\ Len(calls) = 2
    /\ IsRun(calls[1].payload, 0, 0)
    /\ IsRun(calls[2].payload, 2, 2)

\* The control points of the write procedure after its set-up.
InWriteProcedure ==
    pc \in {"w_loop", "w_image", "up_resolve", "up_post", "w_bind", "w_table", "w_return",
            "ab_enter", "ab_chunk", "ft_fetch", "ft_cell"}

\* C18: in a sequence of write_file and update_document calls on one writer,
\* a relative image reference is resolved against the directory of the
\* source file of the running call, an absolute one is used as it is, and
\* no upload is requested for a path that does not exist.
C18_ResolvedAgainstOwnDirectory ==
    op \in {"write_file", "update_document"} =>
        /\ InWriteProcedure => uploader = args.md_path.dir
        /\ pc \in {"up_post", "w_bind"} =>
             LET ref == w.image_map[w.i][1]
             IN /\ ref.kind = "rel" => w.path = <<args.md_path.dir, ref.id>>
                /\ ref.kind = "abs" => w.path = <<RootDir, ref.id>>
                /\ w.path \in env.files
        /\ \A k \in 1..Len(calls) :
             calls[k].api = "upload_media" => calls[k].payload \in env.files

\* A first call uploaded the image beside its source file in one directory;
\* the next call, for a file of the other directory, has resolved its
\* relative reference there.
C18_Witness ==
    /\ op \in {"write_file", "update_document"}
    /\ CallsStarted = 2
    /\ args.md_path.dir = DirB
    /\ pc = "w_bind"
    /\ w.image_map[w.i][1] = Ref("rel", 2, "", "")
    /\ w.path = <<DirB, 2>>
    /\ \E j \in 1..Len(calls) :
          calls[j].api = "upload_media" /\ calls[j].payload = <<DirA, 1>>
    /\ calls[Len(calls)].api = "upload_media" /\ calls[Len(calls)].payload = <<DirB, 2>>

\* The lines of the text handed to parse.
TextLines == Split(args.content, NL)

\* Line k (1-based) starts with a fence.
IsFenceLine(k) == StartsWith(TextLines[k], Fence)

\* Line k lies in a fenced code region or closes one: the fence lines before
\* it open and close regions in turn.
Fenced(k) == Cardinality({j \in 1..(k - 1) : IsFenceLine(j)}) % 2 = 1

\* The number of leading "#" of a line.
Markers(line) ==
    CHOOSE n \in 0..Len(line) :
        /\ \A j \in 1..n : line[j] = "#"
        /\ n = Len(line) \/ line[n + 1] # "#"

\* The members of a set of integers in increasing order.
RECURSIVE Ascending(_)
Ascending(S) == IF S = {} THEN <<>> ELSE <<Least(S)>> \o Ascending(S \ {Least(S)})

IsHeadingBlock(b) == "key" \in DOMAIN b /\ b.key[1] = "heading"

\* The indices of the blocks of a sequence that satisfy Is, in order.
BlocksWhere(blocks, Is(_)) == Ascending({n \in 1..Len(blocks) : Is(blocks[n])})

\* C14: every line that starts with "#" outside a fenced code region gives
\* exactly one heading block, in the order of the lines, of the level that
\* is the number of leading "#" capped at 9; no other line gives a heading
\* block.
C14_HeadingLevels ==
    (op = "parse" /\ pc = "done") =>
        LET heading_lines ==
                Ascending({k \in 1..Len(TextLines) :
                              StartsWith(TextLines[k], <<"#">>) /\ ~Fenced(k)})
            headings == BlocksWhere(result.value, IsHeadingBlock)
        IN /\ Len(headings) = Len(heading_lines)
           /\ \A n \in 1..Len(headings) :
                 LET b == result.value[headings[n]]
                     m == Markers(TextLines[heading_lines[n]])
                     level == IF m > 9 THEN 9 ELSE m
                 IN /\ b.key = <<"heading", level>>
                    /\ b.block_type = 2 + level

\* Ten markers gave a heading of level 9, and a marker line inside a fenced
\* region gave none.
C14_Witness ==
    /\ op = "parse" /\ pc = "done"
    /\ TextLines = <<Hashes(10) \o <<"a">>, Fence, <<"#", "a">>>>
    /\ Len(result.value) = 2
    /\ result.value[1].key = <<"heading", 9>>
    /\ result.value[2].key = <<"code">>

\* The first fence line after line k, or the line after the last one.
ClosingFence(k) ==
    Least({j \in (k + 1)..Len(TextLines) : IsFenceLine(j)} \union {Len(TextLines) + 1})

\* The lines enclosed by the fence that opens at line k, joined by newlines.
Enclosed(k) == Join(Sub(TextLines, k + 1, ClosingFence(k) - 1), NL)

IsCodeBlock(b) == "key" \in DOMAIN b /\ b.key = <<"code">>

\* The loop of parse is at line k (1-based).
ParsingLine(k) == pc = "p_loop" /\ parser.i + 1 = k /\ k <= Len(parser.lines)

\* The loop never stands on a line enclosed by a fence or on a closing fence,
\* and the code blocks returned are the enclosed texts of the opening fences,
\* in order.
FencedRegionsGiveCodeOnly ==
    /\ \A k \in 1..Len(TextLines) : ParsingLine(k) => ~Fenced(k)
    /\ (op = "parse" /\ pc = "done") =>
          LET opening == Ascending({k \in 1..Len(TextLines) : IsFenceLine(k) /\ ~Fenced(k)})
              codes == BlocksWhere(result.value, IsCodeBlock)
          IN /\ Len(codes) = Len(opening)
             /\ \A n \in 1..Len(codes) :
                   result.value[codes[n]].elements = <<PlainRun(Enclosed(opening[n]))>>

\* The iteration at an opening fence appends one code block holding the
\* enclosed lines and leaves the index after the closing fence.
FenceStep ==
    \A k \in 1..Len(TextLines) :
        (ParsingLine(k) /\ IsFenceLine(k)) =>
            /\ Len(parser'.blocks) = Len(parser.blocks) + 1
            /\ SubSeq(parser'.blocks, 1, Len(parser.blocks)) = parser.blocks
            /\ IsCodeBlock(parser'.blocks[Len(parser'.blocks)])
            /\ parser'.blocks[Len(parser'.blocks)].elements = <<PlainRun(Enclosed(k))>>
            /\ parser'.i + 1 = ClosingFence(k) + 1

\* C15: a line opening a code fence gives exactly one code block whose
\* content is the newline-joined lines after it up to the next line that
\* starts with a fence, or up to the end of the text; the enclosed lines give
\* no other block, and parsing resumes after the closing fence.
C15_FencedCode == []FencedRegionsGiveCodeOnly /\ [][FenceStep]_vars

\* A fence closed by a fence line that names a language, around a line that
\* looks like a heading: one code block and nothing else.
C15_Witness ==
    /\ op = "parse" /\ pc = "done"
    /\ TextLines = <<Fence, <<"#", "a">>, Fence \o <<"g", "o">>>>
    /\ Len(result.value) = 1
    /\ result.value[1].elements = <<PlainRun(<<"#", "a">>)>>

\* A fence without a closing fence took every remaining line as its content.
C15_WitnessUnclosed ==
    /\ op = "parse" /\ pc = "done"
    /\ TextLines = <<Fence, <<"#", "a">>, <<"a">>>>
    /\ result.value = <<CodeBlock(<<"#", "a", NL, "a">>, <<"plain_text">>)>>

\* Line k can be a row of a table region.
IsTableLine(k) == StartsWith(Strip(TextLines[k]), <<"|">>)

\* The line after the table region that starts at line k: the region is the
\* longest run of table lines from k.
RegionEnd(k) ==
    Least({j \in k..Len(TextLines) : ~IsTableLine(j)} \union {Len(TextLines) + 1})

\* A row all of whose cells consist only of dashes and colons.
AllDashColon(row) ==
    \A c \in 1..Len(row) : row[c] # <<>> /\ \A j \in 1..Len(row[c]) : row[c][j] \in {"-", ":"}

\* The rows of the region that starts at line k, and those that are to be
\* emitted.
RegionRows(k) == [n \in 1..(RegionEnd(k) - k) |-> ParseTableRow(TextLines[k + n - 1])]
KeptRow(row) == ~AllDashColon(row)
EmittedRows(k) == SelectSeq(RegionRows(k), KeptRow)

\* The blocks an iteration of the loop appended.
Appended == SubSeq(parser'.blocks, Len(parser.blocks) + 1, Len(parser'.blocks))

\* The iteration at the start of a table region with a row to emit appends
\* one placeholder with the emitted rows and their dimensions and leaves the
\* index after the region; no other iteration appends a table placeholder.
TableStep ==
    \A k \in 1..Len(TextLines) :
        ParsingLine(k) =>
            /\ SubSeq(parser'.blocks, 1, Len(parser.blocks)) = parser.blocks
            /\ IF LooksLikeTable(TextLines[k]) /\ EmittedRows(k) # <<>>
               THEN /\ Len(Appended) = 1
                    /\ IsTablePlaceholder(Appended[1])
                    /\ Appended[1].table_data = EmittedRows(k)
                    /\ Appended[1].rows = Len(EmittedRows(k))
                    /\ Appended[1].cols = Width(EmittedRows(k))
                    /\ parser'.i + 1 = RegionEnd(k)
               ELSE \A n \in 1..Len(Appended) : ~IsTablePlaceholder(Appended[n])

\* Every grid returned has no row of dashes and colons, and the dimensions
\* of its placeholder are its number of rows and its greatest row length.
GridsWithoutAlignmentRows ==
    (op = "parse" /\ pc = "done") =>
        \A n \in 1..Len(result.value) :
            LET b == result.value[n]
            IN IsTablePlaceholder(b) =>
                /\ \A r \in 1..Len(b.table_data) : ~AllDashColon(b.table_data[r])
                /\ b.rows = Len(b.table_data)
                /\ b.cols = Width(b.table_data)

\* C16: for every table region, a row all of whose cells consist only of
\* dash and colon characters never appears in the emitted grid, every other
\* row of the region appears in order, the column count of the placeholder
\* is the greatest cell count of the emitted rows and its row count is the
\* number of emitted rows.
C16_AlignmentRowsDropped == []GridsWithoutAlignmentRows /\ [][TableStep]_vars

\* A region of a header, an alignment row and a shorter row gave a grid of
\* the two data rows, two columns wide.
C16_Witness ==
    /\ op = "parse" /\ pc = "done"
    /\ TextLines = <<<<"|", "a", "|", "b", "|">>, <<"|", "-", "|", ":", "-", "|">>, <<"|", "a">>>>
    /\ Len(result.value) = 1
    /\ result.value[1].table_data = <<(<<(<<"a">>), <<"b">>>>), <<(<<"a">>)>>>>
    /\ result.value[1].rows = 2
    /\ result.value[1].cols = 2

\* An iteration of the main loop of parse leaves a greater line index.
IterationAdvances == (pc = "p_loop" /\ pc' = "p_loop") => parser'.i > parser.i

\* The line index never decreases while parse runs.
IndexNeverBack == (pc = "p_loop") => parser'.i >= parser.i

\* C20: parse terminates on every text: each iteration of its main loop
\* advances the line index by at least one, also when a line that looks like
\* a table start gives an empty grid and falls through to the later
\* constructs, and the index never moves backwards.
C20_ParseTerminates ==
    /\ [][IterationAdvances /\ IndexNeverBack]_vars
    /\ <>(pc = "done")

\* Two lines that look like a table start but hold only alignment rows were
\* each taken as a paragraph, one line per iteration, and parse returned.
C20_Witness ==
    /\ op = "parse" /\ pc = "done"
    /\ TextLines = <<<<"|", "-", "|", ":", "-", "|">>, <<"|", "-", "|", ":", "-", "|">>, <<"a">>>>
    /\ Len(result.value) = 3
    /\ \A n \in 1..3 : result.value[n].key = <<"text">>
    /\ parser.pending_tables = <<>>
    /\ parser.i = 3

====
